---- MODULE Spec2Model ----
(***************************************************************************)
(* TraceZero: the relayer core (token store, commitment service, deposit   *)
(* and withdrawal pipelines) and the on-chain privacy_proxy program it     *)
(* drives, as state machines.                                              *)
(*                                                                         *)
(* Conventions.                                                            *)
(*   - Option<T> is a sequence: None is <<>>, Some(x) is <<x>>.            *)
(*   - A fixed-size Rust array is a function on 0..N-1.                    *)
(*   - SHA-256 and the Poseidon Merkle root are collision-free: a digest   *)
(*     is the tagged pre-image it was computed from.                       *)
(*   - Lamport balances are not part of the state: transfers are funded.   *)
(***************************************************************************)
EXTENDS Integers, Sequences, FiniteSets, TLC

VARIABLES
    chain,      \* accounts of the on-chain program
    ledger,     \* per pool address, the transactions the RPC node reports
    now,        \* unix time in seconds (Clock::get / SystemTime::now)
    merkle,     \* MerkleService: trees and commitments, in memory
    mdisk,      \* merkle_state/bucket_<id>.json and its .tmp
    store,      \* TokenStore: cache and checksum, in memory
    sdisk,      \* used_tokens.dat, .checksum and .tmp
    ins,        \* the TokenStore::insert call in progress, file step by file step
    dep,        \* the handle_deposit calls in flight
    wd,         \* the handle_withdrawal calls in flight
    pending_withdrawals,  \* WithdrawalService::pending_withdrawals
    poll,       \* the background loop of main
    sign,       \* the POST /sign call in progress
    blind,      \* one credit on its way: blinded, signed, unblinded, verified
    client,     \* PrivacyClient: tor_verified and what it has sent
    msave,      \* the MerkleService::insert calls in progress, by task
    locks,      \* the RwLocks of the relayer and the tasks that take them
    last,       \* observation: the outcome of the last completed operation
    tally       \* observation: counters over the run

vars == <<chain, ledger, now, merkle, mdisk, store, sdisk, ins, dep, wd,
          pending_withdrawals, poll, sign, blind, client, msave, locks, last,
          tally>>

-----------------------------------------------------------------------------
(* Bounds and value domains *)

MaxDeposits == 1
MaxClockHours == 1
MaxSeqLen == 2
MaxCalls == 2
MaxWithdrawals == 2
MaxPoolDeposits == 2

Commitments == {"c1", "c2"}
TokenIds == {"k1", "k2"}
NullifierHashes == {"n1", "n2"}
Recipients == {"rcpt1"}

None == <<>>
Some(x) == <<x>>

SeqsUpTo(S, n) == UNION {[1..k -> S] : k \in 0..n}

\* encryption.rs: hash_token_id, SHA-256 over "token_hash:" and the token id
hash_token_id(token_id) == <<"sha256", "token_hash:", token_id>>

TokenHashes == {hash_token_id(k) : k \in TokenIds}

-----------------------------------------------------------------------------
(* Program constants *)

NUM_BUCKETS == 7
HISTORICAL_ROOTS_COUNT == 2
ROOTS_PER_ACCOUNT == 8
MIN_DELAY_HOURS == 0
MAX_DELAY_HOURS == 24
SECONDS_PER_HOUR == 3600

\* The buckets the model instantiates, out of 0..NUM_BUCKETS-1.
Buckets == {0}

-----------------------------------------------------------------------------
(* privacy_proxy_sdk::merkle::MerkleTree, as the ordered list of its leaves *)

MerkleTreeNew == <<>>
MerkleTreeInsert(t, c) == Append(t, c)
MerkleTreeLen(t) == Len(t)

\* 2^k
RECURSIVE Pow2(_)
Pow2(k) == IF k = 0 THEN 1 ELSE 2 * Pow2(k - 1)

TREE_DEPTH == 20

\* Poseidon(left, right), and the field element of a leaf
Poseidon(left, right) == <<"poseidon", left, right>>
LeafNode(c) == <<"leaf", c>>

\* The root of the empty subtree of a height, a precomputed constant
EmptySubtree(level) == <<"empty", level>>

\* The node of the tree at a height and a position: leaves fill the tree
\* from the left, and a subtree without leaves is the empty subtree
RECURSIVE TreeNode(_, _, _)
TreeNode(t, level, idx) ==
    IF idx * Pow2(level) >= Len(t) THEN EmptySubtree(level)
    ELSE IF level = 0 THEN LeafNode(t[idx + 1])
    ELSE Poseidon(TreeNode(t, level - 1, 2 * idx), TreeNode(t, level - 1, 2 * idx + 1))

MerkleTreeRoot(t) == TreeNode(t, TREE_DEPTH, 0)

\* MerkleTree::proof: the siblings on the way from the leaf to the root, and
\* for each level whether the node is the right child
MerkleTreeProof(t, leaf_index) ==
    IF leaf_index >= Len(t)
    THEN [ok |-> FALSE, err |-> "InvalidLeafIndex",
          proof |-> [siblings |-> <<>>, path_indices |-> <<>>, leaf_index |-> leaf_index]]
    ELSE [ok |-> TRUE, err |-> "",
          proof |->
            [siblings |->
               [l \in 1..TREE_DEPTH |->
                  LET idx == leaf_index \div Pow2(l - 1)
                  IN TreeNode(t, l - 1, IF idx % 2 = 0 THEN idx + 1 ELSE idx - 1)],
             path_indices |->
               [l \in 1..TREE_DEPTH |-> (leaf_index \div Pow2(l - 1)) % 2],
             leaf_index |-> leaf_index]]

\* The node reached from a node by the first levels of a proof
RECURSIVE ClimbProof(_, _, _)
ClimbProof(node, proof, levels) ==
    IF levels = 0 THEN node
    ELSE LET below == ClimbProof(node, proof, levels - 1)
         IN IF proof.path_indices[levels] = 0
            THEN Poseidon(below, proof.siblings[levels])
            ELSE Poseidon(proof.siblings[levels], below)

\* MerkleTree::verify_proof
MerkleTreeVerifyProof(root_hash, leaf, proof) ==
    /\ Len(proof.siblings) = TREE_DEPTH
    /\ Len(proof.path_indices) = TREE_DEPTH
    /\ ClimbProof(LeafNode(leaf), proof, TREE_DEPTH) = root_hash

ZeroBytes == <<"zero", <<>>>>

-----------------------------------------------------------------------------
(* The on-chain program: accounts *)

get_initial_merkle_root == MerkleTreeRoot(MerkleTreeNew)

\* init_pool: the DepositPool account after initialisation
InitPoolAccount ==
    [merkle_root |-> get_initial_merkle_root,
     next_index |-> 0,
     total_deposits |-> 0,
     anonymity_set_size |-> 0,
     historical_roots |-> [i \in 0..(HISTORICAL_ROOTS_COUNT - 1) |-> ZeroBytes],
     historical_roots_index |-> 0]

\* init_pool: the HistoricalRoots account after initialisation
InitHistoricalRootsAccount ==
    [write_index |-> 0,
     count |-> 0,
     roots |-> [i \in 0..(ROOTS_PER_ACCOUNT - 1) |-> ZeroBytes]]

\* initialize: the GlobalConfig account (the admin leaves the protocol unpaused)
InitConfigAccount ==
    [paused |-> FALSE,
     min_delay_hours |-> MIN_DELAY_HOURS,
     max_delay_hours |-> MAX_DELAY_HOURS]

InitChain ==
    [config |-> InitConfigAccount,
     pool |-> [b \in Buckets |-> InitPoolAccount],
     historical_roots |-> [b \in Buckets |-> InitHistoricalRootsAccount],
     used_token |-> {},
     encrypted_note |-> {},
     pending |-> <<>>,
     nullifier |-> {}]

\* No transaction has touched any pool address yet
InitLedger == [b \in Buckets |-> <<>>]

\* DepositPool::is_valid_root
is_valid_root(p, root) ==
    \/ p.merkle_root = root
    \/ \E i \in 0..(HISTORICAL_ROOTS_COUNT - 1) : p.historical_roots[i] = root

\* DepositPool::add_root_to_history
add_root_to_history(p) ==
    [p EXCEPT !.historical_roots[p.historical_roots_index] = p.merkle_root,
              !.historical_roots_index =
                  (p.historical_roots_index + 1) % HISTORICAL_ROOTS_COUNT]

\* A ring that wraps one slot early
AddRootShortRing(h, root) ==
    [h EXCEPT !.roots[h.write_index] = root,
              !.write_index = (h.write_index + 1) % (ROOTS_PER_ACCOUNT - 1),
              !.count = IF h.count < ROOTS_PER_ACCOUNT THEN h.count + 1 ELSE h.count]

\* HistoricalRoots::add_root
add_root(h, root) ==
    [h EXCEPT !.roots[h.write_index] = root,
              !.write_index = (h.write_index + 1) % ROOTS_PER_ACCOUNT,
              !.count = IF h.count < ROOTS_PER_ACCOUNT THEN h.count + 1 ELSE h.count]

\* HistoricalRoots::contains_root
contains_root(h, root) ==
    \E i \in 0..(h.count - 1) : h.roots[i] = root

\* The address of a PendingWithdrawal account: seeds (PENDING, pool, total_deposits)
PendingPda(b, total) == <<b, total>>

\* The address of an EncryptedNote account: seeds (NOTE, pool, next_index)
NotePda(b, idx) == <<b, idx>>

TxOk(ch) == [ok |-> TRUE, err |-> "", chain |-> ch]
TxErr(ch, e) == [ok |-> FALSE, err |-> e, chain |-> ch]

\* The program-log lines of a confirmed deposit that carry a commitment
\* ("Deposit: commitment=<hex>"): the handler logs none.
DepositLogCommitments(commitment) == <<>>

\* What get_signatures_for_address(pool) and get_transaction later report
\* for a transaction: whether it failed, and the commitments its logs carry
TxRecord(failed, commits) == [err |-> failed, commitments |-> commits]

-----------------------------------------------------------------------------
(* The on-chain program: instructions.  Each takes the accounts state and  *)
(* the instruction's arguments and returns TxOk(new state) or TxErr.       *)

UsedTokenInitAlways(ch, token_hash) == TRUE

\* Deposit accounts: `init` of the used_token PDA fails when it exists.
UsedTokenInitOk(ch, token_hash) == token_hash \notin ch.used_token

\* A note account that can be initialised at any index, any number of times
EncryptedNoteInitAlways(ch, b, note_index) == TRUE

\* Deposit accounts: `init` of the encrypted_note PDA seeded by pool.next_index;
\* the address the caller passes must be that PDA, and it must not exist.
EncryptedNoteInitOk(ch, b, note_index) ==
    /\ note_index = ch.pool[b].next_index
    /\ NotePda(b, note_index) \notin ch.encrypted_note

\* instructions/deposit.rs: Deposit accounts and handler
Deposit(ch, a) ==
    LET b == a.bucket_id
        p == ch.pool[b]
    IN  IF ~a.relayer_authorized THEN TxErr(ch, "UnauthorizedRelayer")
        ELSE IF ~UsedTokenInitOk(ch, a.token_hash) THEN TxErr(ch, "AccountInUse")
        ELSE IF ~EncryptedNoteInitOk(ch, b, a.note_index) THEN TxErr(ch, "ConstraintSeeds")
        ELSE IF ch.config.paused THEN TxErr(ch, "ProtocolPaused")
        ELSE
          LET p1 == add_root_to_history(p)
              p2 == [p1 EXCEPT !.merkle_root = a.merkle_root,
                               !.next_index = p.next_index + 1,
                               !.total_deposits = p.total_deposits + 1,
                               !.anonymity_set_size = p.anonymity_set_size + 1]
          IN TxOk([ch EXCEPT
                 !.historical_roots[b] = add_root(ch.historical_roots[b], p.merkle_root),
                 !.pool[b] = p2,
                 !.used_token = @ \cup {a.token_hash},
                 !.encrypted_note = @ \cup {NotePda(b, p.next_index)}])

\* RequestWithdrawal accounts: `init` of the pending PDA seeded by pool.total_deposits
PendingInitOk(ch, b, pending_index) ==
    /\ pending_index = ch.pool[b].total_deposits
    /\ PendingPda(b, pending_index) \notin DOMAIN ch.pending

\* instructions/request_withdrawal.rs: RequestWithdrawal accounts and handler
RequestWithdrawal(ch, clock, a) ==
    LET b == a.bucket_id
        p == ch.pool[b]
    IN  IF ~PendingInitOk(ch, b, a.pending_index) THEN TxErr(ch, "ConstraintSeeds")
        ELSE IF ch.config.paused THEN TxErr(ch, "ProtocolPaused")
        ELSE IF ~(a.delay_hours >= ch.config.min_delay_hours
                  /\ a.delay_hours <= ch.config.max_delay_hours)
             THEN TxErr(ch, "InvalidDelayHours")
        ELSE IF a.nullifier_hash \in ch.nullifier THEN TxErr(ch, "NullifierAlreadyUsed")
        ELSE IF ~(is_valid_root(p, a.merkle_root)
                  \/ contains_root(ch.historical_roots[b], a.merkle_root))
             THEN TxErr(ch, "InvalidMerkleRoot")
        ELSE IF ~a.proof_ok THEN TxErr(ch, "InvalidProof")
        ELSE
          LET acct == [tx_id |-> p.total_deposits,
                       pool |-> b,
                       recipient |-> a.recipient,
                       execute_after |-> clock + a.delay_hours * SECONDS_PER_HOUR,
                       nullifier_hash |-> a.nullifier_hash,
                       status |-> "Pending"]
          IN TxOk([ch EXCEPT
                 !.pending = (PendingPda(b, p.total_deposits) :> acct) @@ @])

NullifierInitAlways(ch, nullifier_hash) == TRUE

\* ExecuteWithdrawal accounts: `init` of the nullifier PDA fails when it exists.
NullifierInitOk(ch, nullifier_hash) == nullifier_hash \notin ch.nullifier

\* A handler that takes every timelock to have expired
TimelockExpiredAlways(clock, pw) == TRUE

\* execute_withdrawal handler: clock.unix_timestamp >= pending.execute_after
TimelockExpired(clock, pw) == clock >= pw.execute_after

\* instructions/execute_withdrawal.rs: ExecuteWithdrawal accounts and handler.
\* a.pending is the address passed as pending_withdrawal, a.pool the pool,
\* a.nullifier_hash the hash the passed nullifier PDA was derived from.
ExecuteWithdrawal(ch, clock, a) ==
    IF a.pending \notin DOMAIN ch.pending THEN TxErr(ch, "AccountNotInitialized")
    ELSE
      LET pw == ch.pending[a.pending]
      IN  IF a.pool # pw.pool THEN TxErr(ch, "InvalidBucketId")
          ELSE IF pw.status # "Pending" THEN TxErr(ch, "WithdrawalNotPending")
          ELSE IF a.nullifier_hash # pw.nullifier_hash THEN TxErr(ch, "ConstraintSeeds")
          ELSE IF ~NullifierInitOk(ch, pw.nullifier_hash) THEN TxErr(ch, "AccountInUse")
          ELSE IF a.recipient # pw.recipient THEN TxErr(ch, "InvalidProof")
          ELSE IF ch.config.paused THEN TxErr(ch, "ProtocolPaused")
          ELSE IF ~TimelockExpired(clock, pw) THEN TxErr(ch, "TimelockNotExpired")
          ELSE TxOk([ch EXCEPT
                 !.pool[pw.pool].anonymity_set_size = IF @ > 0 THEN @ - 1 ELSE 0,
                 !.nullifier = @ \cup {pw.nullifier_hash},
                 !.pending[a.pending].status = "Executed"])

\* instructions/cancel_withdrawal.rs: CancelWithdrawal accounts and handler;
\* `close = relayer` removes the account once the handler returns.
CancelWithdrawal(ch, a) ==
    IF a.pending \notin DOMAIN ch.pending THEN TxErr(ch, "AccountNotInitialized")
    ELSE
      LET pw == ch.pending[a.pending]
      IN  IF pw.status # "Pending" THEN TxErr(ch, "WithdrawalNotPending")
          ELSE IF ch.config.paused THEN TxErr(ch, "ProtocolPaused")
          ELSE IF ~a.proof_ok THEN TxErr(ch, "InvalidProof")
          ELSE TxOk([ch EXCEPT
                 !.pending = [k \in (DOMAIN ch.pending) \ {a.pending} |-> ch.pending[k]]])


-----------------------------------------------------------------------------
(* relayer/src/deposit.rs: TokenStore *)

\* The hashes the token-store specifications draw from
StoreHashes == {hash_token_id(k) : k \in {"k1", "k2", "k3"}}

\* TokenStore::compute_checksum: SHA-256 over the sorted hashes
compute_checksum(tokens) == <<"sha256", tokens>>

\* [0u8; 32]
ZeroChecksum == <<"zero", {}>>

\* A checksum file whose length is not 32 bytes
ShortFile == <<"short", {}>>

NoFiles == [dat |-> None, checksum |-> None, tmp |-> None]

\* TokenStore::load: the in-memory store read from the files
TokenStoreLoad(d) ==
    IF d.dat = None
    THEN [cache |-> {}, checksum |-> compute_checksum({})]
    ELSE LET set == d.dat[1]
         IN IF /\ d.checksum # None
               /\ d.checksum[1] # ShortFile
               /\ compute_checksum(set) # d.checksum[1]
            THEN [cache |-> {}, checksum |-> ZeroChecksum]
            ELSE [cache |-> set, checksum |-> compute_checksum(set)]

TokenStoreContainsNever(st, h) == FALSE

\* TokenStore::contains
TokenStoreContains(st, h) == h \in st.cache

\* TokenStore::insert, the in-memory update before any file is touched
InsertCache(st, h) ==
    [cache |-> st.cache \cup {h}, checksum |-> compute_checksum(st.cache \cup {h})]

\* TokenStore::insert, file steps in program order:
\* File::create(temp_path)
CreateTmp(d) == [d EXCEPT !.tmp = Some({})]
\* write_all of every token, then sync_all
WriteTmp(d, st) == [d EXCEPT !.tmp = Some(st.cache)]
\* fs::write(checksum_path): open with truncation ...
TruncateChecksum(d) == [d EXCEPT !.checksum = Some(ShortFile)]
\* ... then the 32 bytes
WriteChecksum(d, st) == [d EXCEPT !.checksum = Some(st.checksum)]
\* fs::rename(temp_path, path)
RenameTmp(d) == [d EXCEPT !.dat = d.tmp, !.tmp = None]

\* An insert that writes the files again for a hash it already holds
TokenStoreInsertRewriting(st, d, h, fail_at) ==
    LET st1 == InsertCache(st, h)
        d1 == CreateTmp(d)
        d2 == WriteTmp(d1, st1)
        d3 == WriteChecksum(TruncateChecksum(d2), st1)
    IN  CASE fail_at = 1 -> [ok |-> FALSE, store |-> st1, disk |-> d]
          [] fail_at = 2 -> [ok |-> FALSE, store |-> st1, disk |-> d1]
          [] fail_at = 3 -> [ok |-> FALSE, store |-> st1, disk |-> d2]
          [] fail_at = 4 -> [ok |-> FALSE, store |-> st1, disk |-> d3]
          [] OTHER -> [ok |-> TRUE, store |-> st1, disk |-> RenameTmp(d3)]

\* TokenStore::insert as one call. fail_at names the file step whose I/O
\* fails (0: none, 1: create, 2: write/sync, 3: checksum, 4: rename).
TokenStoreInsert(st, d, h, fail_at) ==
    IF h \in st.cache THEN [ok |-> TRUE, store |-> st, disk |-> d]
    ELSE
      LET st1 == InsertCache(st, h)
          d1 == CreateTmp(d)
          d2 == WriteTmp(d1, st1)
          d3 == WriteChecksum(TruncateChecksum(d2), st1)
          d4 == RenameTmp(d3)
      IN  CASE fail_at = 1 -> [ok |-> FALSE, store |-> st1, disk |-> d]
            [] fail_at = 2 -> [ok |-> FALSE, store |-> st1, disk |-> d1]
            [] fail_at = 3 -> [ok |-> FALSE, store |-> st1, disk |-> d2]
            [] fail_at = 4 -> [ok |-> FALSE, store |-> st1, disk |-> d3]
            [] OTHER -> [ok |-> TRUE, store |-> st1, disk |-> d4]

-----------------------------------------------------------------------------
(* relayer/src/merkle_service.rs: MerkleService *)

\* TreeState::compute_checksum
TreeStateChecksum(commitments) ==
    <<"sha256", <<"merkle_tree_state_v1:", Len(commitments), commitments>>>>

\* TreeState::new
TreeStateNew(commitments) ==
    [commitments |-> commitments, checksum |-> TreeStateChecksum(commitments)]

\* TreeState::verify
TreeStateVerify(state) == TreeStateChecksum(state.commitments) = state.checksum

\* The tree that inserting the list in order builds
RECURSIVE BuildTree(_)
BuildTree(list) ==
    IF list = <<>> THEN MerkleTreeNew
    ELSE MerkleTreeInsert(BuildTree(SubSeq(list, 1, Len(list) - 1)), list[Len(list)])

\* MerkleService::new
MerkleServiceNew ==
    [trees |-> [b \in Buckets |-> None], commitments |-> [b \in Buckets |-> None]]

NoMerkleFiles == [file |-> [b \in Buckets |-> None], tmp |-> [b \in Buckets |-> None]]

MRes(ok, err, value, m, d) ==
    [ok |-> ok, err |-> err, value |-> value, merkle |-> m, mdisk |-> d]

\* MerkleService::load_state
load_state(d, b) ==
    IF d.file[b] = None THEN None
    ELSE IF TreeStateVerify(d.file[b][1]) THEN Some(d.file[b][1].commitments)
    ELSE None

\* MerkleService::save_state; io_ok is whether the write of the .tmp succeeds
save_state(m, d, b, io_ok) ==
    LET bucket_commitments == IF m.commitments[b] = None THEN <<>> ELSE m.commitments[b][1]
        state == TreeStateNew(bucket_commitments)
    IN  IF ~io_ok THEN MRes(FALSE, "Internal", 0, m, d)
        ELSE MRes(TRUE, "", 0, m, [d EXCEPT !.file[b] = Some(state), !.tmp[b] = None])

\* MerkleService::init_tree
init_tree(m, d, b) ==
    IF m.trees[b] # None THEN m
    ELSE LET saved == load_state(d, b)
         IN IF saved # None
            THEN [m EXCEPT !.trees[b] = Some(BuildTree(saved[1])),
                           !.commitments[b] = Some(saved[1])]
            ELSE [m EXCEPT !.trees[b] = Some(MerkleTreeNew),
                           !.commitments[b] = Some(<<>>)]

\* MerkleService::size
size(m, b) ==
    IF m.trees[b] = None THEN MRes(FALSE, "MerkleTree", 0, m, <<>>)
    ELSE MRes(TRUE, "", MerkleTreeLen(m.trees[b][1]), m, <<>>)

\* .unwrap_or(0) of a size
size_or_zero(m, b) == IF size(m, b).ok THEN size(m, b).value ELSE 0

\* MerkleService::root
root(m, b) ==
    IF m.trees[b] = None THEN MRes(FALSE, "MerkleTree", ZeroBytes, m, <<>>)
    ELSE MRes(TRUE, "", MerkleTreeRoot(m.trees[b][1]), m, <<>>)

\* A service that answers every request with the proof of the first leaf
ProofOfFirstLeaf(m, b, leaf_index) ==
    IF m.trees[b] = None
    THEN MRes(FALSE, "MerkleTree", MerkleTreeProof(<<>>, 0).proof, m, <<>>)
    ELSE MRes(TRUE, "", MerkleTreeProof(m.trees[b][1], 0).proof, m, <<>>)

\* A state file that std::fs::write has created or cut to length 0 and not
\* yet filled: it does not parse, and so does not verify
TruncatedFile == [commitments |-> <<>>, checksum |-> <<"truncated", <<>>>>]

\* MerkleService::insert up to the release of the locks: the leaf is added to
\* the tree and the commitment to the list
insert_locked(m, b, commitment) ==
    IF m.trees[b] = None THEN MRes(FALSE, "MerkleTree", 0, m, <<>>)
    ELSE LET list == IF m.commitments[b] = None THEN <<>> ELSE m.commitments[b][1]
         IN MRes(TRUE, "", MerkleTreeLen(m.trees[b][1]),
                 [m EXCEPT !.trees[b] = Some(MerkleTreeInsert(m.trees[b][1], commitment)),
                           !.commitments[b] = Some(Append(list, commitment))],
                 <<>>)

\* save_state, the state that is serialised: made from the list as it is
\* when the read lock is held
save_state_json(m, b) ==
    TreeStateNew(IF m.commitments[b] = None THEN <<>> ELSE m.commitments[b][1])

\* std::fs::write, its first half: the .tmp is created, or cut to length 0
fs_create_tmp(d, b) == [d EXCEPT !.tmp[b] = Some(TruncatedFile)]

\* std::fs::write, its second half: the bytes go to the file the handle is on,
\* wherever a rename has taken it since
fs_write_all(d, b, at, json) ==
    IF at = "tmp" THEN [d EXCEPT !.tmp[b] = Some(json)]
    ELSE IF at = "file" THEN [d EXCEPT !.file[b] = Some(json)]
    ELSE d

\* std::fs::rename of the .tmp over the target
fs_rename(d, b) ==
    IF d.tmp[b] = None THEN [ok |-> FALSE, mdisk |-> d]
    ELSE [ok |-> TRUE, mdisk |-> [d EXCEPT !.file[b] = d.tmp[b], !.tmp[b] = None]]

\* Where an open handle is after the .tmp was renamed over the target: the
\* .tmp it was on is now the target, and the target it was on is unlinked
handle_after_rename(at) ==
    IF at = "tmp" THEN "file" ELSE "unlinked"

\* MerkleService::proof
proof(m, b, leaf_index) ==
    IF m.trees[b] = None
    THEN MRes(FALSE, "MerkleTree", MerkleTreeProof(<<>>, leaf_index).proof, m, <<>>)
    ELSE LET res == MerkleTreeProof(m.trees[b][1], leaf_index)
         IN MRes(res.ok, IF res.ok THEN "" ELSE "MerkleTree", res.proof, m, <<>>)

\* MerkleService::verify_proof
verify_proof(root_hash, leaf, merkle_proof) ==
    MerkleTreeVerifyProof(root_hash, leaf, merkle_proof)

\* An insert that makes the tree of a bucket that has none
InsertUnguarded(m, d, b, commitment, io_ok) ==
    LET tree == IF m.trees[b] = None THEN MerkleTreeNew ELSE m.trees[b][1]
        list == IF m.commitments[b] = None THEN <<>> ELSE m.commitments[b][1]
        m1 == [m EXCEPT !.trees[b] = Some(MerkleTreeInsert(tree, commitment)),
                        !.commitments[b] = Some(Append(list, commitment))]
    IN MRes(TRUE, "", MerkleTreeLen(tree), m1, save_state(m1, d, b, io_ok).mdisk)

\* MerkleService::insert; a failed save_state is logged and ignored
insert(m, d, b, commitment, io_ok) ==
    IF m.trees[b] = None THEN MRes(FALSE, "MerkleTree", 0, m, d)
    ELSE
      LET index == MerkleTreeLen(m.trees[b][1])
          list == IF m.commitments[b] = None THEN <<>> ELSE m.commitments[b][1]
          m1 == [m EXCEPT !.trees[b] = Some(MerkleTreeInsert(m.trees[b][1], commitment)),
                          !.commitments[b] = Some(Append(list, commitment))]
          saved == save_state(m1, d, b, io_ok)
      IN MRes(TRUE, "", index, m1, saved.mdisk)

\* A sync_from_chain that takes every tree to be in sync already
InSyncAlways(m, b, on_chain_commitments) == TRUE

\* sync_from_chain: the early return, taken when the list is as long as the tree
AlreadyInSync(m, b, on_chain_commitments) ==
    Len(on_chain_commitments) = size_or_zero(m, b)

\* MerkleService::sync_from_chain
sync_from_chain(m, d, b, on_chain_commitments, io_ok) ==
    IF AlreadyInSync(m, b, on_chain_commitments) THEN MRes(TRUE, "", 0, m, d)
    ELSE
      LET m1 == [m EXCEPT !.trees[b] = Some(BuildTree(on_chain_commitments)),
                          !.commitments[b] = Some(on_chain_commitments)]
          saved == save_state(m1, d, b, io_ok)
      IN MRes(saved.ok, saved.err, 0, m1, saved.mdisk)

\* RelayerState::new: MerkleService::new, then init_tree for every bucket
RECURSIVE InitAllTrees(_, _, _)
InitAllTrees(m, d, bs) ==
    IF bs = {} THEN m
    ELSE LET b == CHOOSE x \in bs : TRUE
         IN InitAllTrees(init_tree(m, d, b), d, bs \ {b})

BootMerkle(d) == InitAllTrees(MerkleServiceNew, d, Buckets)

-----------------------------------------------------------------------------
(* relayer/src/deposit.rs: DepositService *)

\* config.rs: BUCKET_AMOUNTS, in units of 0.1 SOL (100_000_000 lamports)
BUCKET_AMOUNTS == [i \in 0..(NUM_BUCKETS - 1) |-> <<1, 5, 10, 50, 100, 500, 1000>>[i + 1]]

\* A lookup that finds every amount in the first bucket
BucketZeroAlways(amount) == Some(0)

\* config.rs: get_bucket_id
get_bucket_id(amount) ==
    IF \E i \in DOMAIN BUCKET_AMOUNTS : BUCKET_AMOUNTS[i] = amount
    THEN Some(CHOOSE i \in DOMAIN BUCKET_AMOUNTS :
                /\ BUCKET_AMOUNTS[i] = amount
                /\ \A j \in DOMAIN BUCKET_AMOUNTS : BUCKET_AMOUNTS[j] = amount => i <= j)
    ELSE None

\* error.rs: RelayerError::into_response, the HTTP status of each error
StatusCode(err) ==
    CASE err = "InvalidBlindedToken" -> 400
      [] err = "InvalidSignature" -> 401
      [] err = "TokenAlreadyRedeemed" -> 409
      [] err = "InvalidBucket" -> 400
      [] err = "InvalidRequest" -> 400
      [] OTHER -> 500

\* The unblinded RSA signature the relayer's key yields for a token id
SignatureOf(token_id) == <<"sig", token_id>>

\* BlindSignerService::verify_signature
verify_signature(message, signature) == signature = SignatureOf(message)

\* DepositService::verify_credit
verify_credit(credit) == verify_signature(credit.token_id, credit.signature)

CheckAndReserveToken(st, token_hash) ==
    [ok |-> ~TokenStoreContains(st, token_hash), store |-> InsertCache(st, token_hash)]

\* DepositService::check_token_not_used: a read under the store's read lock
check_token_not_used(st, token_hash) ==
    [ok |-> ~TokenStoreContains(st, token_hash), store |-> st]

\* handle_deposit steps 1-3: the checks made before anything is fetched
EntryChecks(st, request) ==
    LET token_hash == hash_token_id(request.credit.token_id)
        chk == check_token_not_used(st, token_hash)
        bucket == get_bucket_id(request.credit.amount)
    IN  IF ~verify_credit(request.credit)
        THEN [err |-> "InvalidSignature", store |-> st, bucket_id |-> None]
        ELSE IF ~chk.ok
        THEN [err |-> "TokenAlreadyRedeemed", store |-> chk.store, bucket_id |-> None]
        ELSE IF bucket = None
        THEN [err |-> "InvalidBucket", store |-> chk.store, bucket_id |-> None]
        ELSE [err |-> "", store |-> chk.store, bucket_id |-> bucket]

\* DepositService::get_on_chain_next_index
get_on_chain_next_index(ch, b) == ch.pool[b].next_index

Reverse(q) == [i \in 1..Len(q) |-> q[Len(q) + 1 - i]]

\* RpcClient::get_signatures_for_address: newest first
get_signatures_for_address(lg, b) == Reverse(lg[b])

HISTORY_SKIP_THRESHOLD == 50
HISTORY_SCAN_LIMIT == 20

\* sync_local_tree: the commitments parsed from the logs of the scanned
\* transactions, `signatures.iter().rev().take(20)`, failed ones skipped
RECURSIVE CollectCommitments(_)
CollectCommitments(txs) ==
    IF txs = <<>> THEN <<>>
    ELSE (IF txs[1].err THEN <<>> ELSE txs[1].commitments)
         \o CollectCommitments(Tail(txs))

ScanHistory(signatures) ==
    LET oldest_first == Reverse(signatures)
        n == IF Len(oldest_first) < HISTORY_SCAN_LIMIT
             THEN Len(oldest_first) ELSE HISTORY_SCAN_LIMIT
    IN CollectCommitments(SubSeq(oldest_first, 1, n))

\* DepositService::sync_local_tree; history_ok is whether
\* get_signatures_for_address answers
sync_local_tree(m, d, lg, b, on_chain_size, history_ok) ==
    LET local_size == size_or_zero(m, b)
        r1 == IF local_size > on_chain_size
              THEN sync_from_chain(m, d, b, <<>>, TRUE)
              ELSE MRes(TRUE, "", 0, m, d)
        current_local_size == size_or_zero(r1.merkle, b)
        signatures == get_signatures_for_address(lg, b)
        commitments == ScanHistory(signatures)
    IN  IF ~r1.ok THEN r1
        ELSE IF ~(current_local_size < on_chain_size) THEN r1
        ELSE IF ~history_ok
        THEN MRes(FALSE, "TransactionFailed", 0, r1.merkle, r1.mdisk)
        ELSE IF Len(signatures) > HISTORY_SKIP_THRESHOLD
        THEN sync_from_chain(r1.merkle, r1.mdisk, b, <<>>, TRUE)
        ELSE IF commitments = <<>>
        THEN sync_from_chain(r1.merkle, r1.mdisk, b, <<>>, TRUE)
        ELSE sync_from_chain(r1.merkle, r1.mdisk, b, commitments, TRUE)

\* DepositService::execute_deposit: the instruction it builds
DepositInstruction(b, commitment, token_hash, merkle_root, on_chain_next_index) ==
    [relayer_authorized |-> TRUE, bucket_id |-> b, commitment |-> commitment,
     token_hash |-> token_hash, note_index |-> on_chain_next_index,
     merkle_root |-> merkle_root]

NextAfterExecuteIgnoringError(tx_ok) == "mark"

\* handle_deposit step 6: `.await?` on execute_deposit returns the error, and
\* only a confirmed transaction lets the call go on to mark_token_used
NextAfterExecute(tx_ok) == IF tx_ok THEN "mark" ELSE "failed"

\* DepositService::mark_token_used
mark_token_used(st, d, token_hash, fail_at) == TokenStoreInsert(st, d, token_hash, fail_at)

-----------------------------------------------------------------------------
(* relayer/src/withdrawal.rs: WithdrawalService *)

\* WithdrawalService::verify_merkle_root: a root found neither as the current
\* local root nor in the local history is let through to the program
\* The all-zero value of a 32-byte request field (nullifier_hash, recipient,
\* relayer, binding_hash), whose other values are named by strings
AllZero == "all_zero"

\* privacy-proxy-sdk crypto.rs: validate_fee
validate_fee(fee, amount) == ~(fee >= amount)

\* A request that passes validation unchanged, whatever it carries
ValidateAlways(request) == TRUE

\* privacy-proxy-sdk withdrawal.rs: WithdrawalRequest::validate
validate(request) ==
    /\ ~(request.amount = 0)
    /\ validate_fee(request.fee, request.amount)
    /\ ~(request.nullifier_hash = AllZero)
    /\ ~(request.recipient = AllZero)
    /\ ~(request.relayer = AllZero)
    /\ ~(request.binding_hash = AllZero)

verify_merkle_root(m, request_root, b) == root(m, b).ok

\* submit_withdrawal_request: the instruction it builds, with the pending PDA
\* derived from the total_deposits it has just fetched
WithdrawalInstruction(b, request, delay_hours, total_deposits) ==
    [bucket_id |-> b, nullifier_hash |-> request.nullifier_hash,
     recipient |-> request.recipient, merkle_root |-> request.root,
     delay_hours |-> delay_hours, pending_index |-> total_deposits,
     proof_ok |-> request.proof_ok]

\* handle_withdrawal step 4: the PendingWithdrawalRecord it pushes, with the
\* pending PDA derived from the total_deposits fetched after the transaction
PendingWithdrawalRecord(b, request, total_deposits, clock, delay_hours) ==
    [pda |-> PendingPda(b, total_deposits),
     pool_pda |-> b,
     bucket_id |-> b,
     nullifier_hash |-> request.nullifier_hash,
     recipient |-> request.recipient,
     execute_after |-> clock + delay_hours * SECONDS_PER_HOUR,
     executed |-> FALSE]

\* execute_withdrawal_by_record: get_account(nullifier_pda).is_ok()
nullifier_exists(ch, nullifier_hash) == nullifier_hash \in ch.nullifier

\* WithdrawalService::execute_withdrawal_by_record
execute_withdrawal_by_record(ch, clock, record) ==
    IF nullifier_exists(ch, record.nullifier_hash)
    THEN TxOk(ch)
    ELSE ExecuteWithdrawal(ch, clock,
             [pending |-> record.pda, pool |-> record.pool_pda,
              nullifier_hash |-> record.nullifier_hash,
              recipient |-> record.recipient])

\* poll_and_execute: the records it selects
Eligible(pw, clock) ==
    SelectSeq(pw, LAMBDA r : ~r.executed /\ clock >= r.execute_after)

\* poll_and_execute: pending.iter_mut().find(|r| r.pda == record.pda), executed = true
MarkExecuted(pw, pda) ==
    IF \E k \in 1..Len(pw) : pw[k].pda = pda
    THEN LET first == CHOOSE k \in 1..Len(pw) :
                         /\ pw[k].pda = pda
                         /\ \A j \in 1..Len(pw) : pw[j].pda = pda => k <= j
         IN [pw EXCEPT ![first].executed = TRUE]
    ELSE pw

\* execute_withdrawal: pending.iter_mut().find(|r| r.nullifier_hash == nullifier_hash),
\* executed = true
MarkExecutedByNullifier(pw, nullifier_hash) ==
    IF \E k \in 1..Len(pw) : pw[k].nullifier_hash = nullifier_hash
    THEN LET first == CHOOSE k \in 1..Len(pw) :
                         /\ pw[k].nullifier_hash = nullifier_hash
                         /\ \A j \in 1..Len(pw) :
                               pw[j].nullifier_hash = nullifier_hash => k <= j
         IN [pw EXCEPT ![first].executed = TRUE]
    ELSE pw

\* WithdrawalService::execute_withdrawal (the HTTP endpoint's path): the first
\* record with the nullifier hash that is not executed is executed and marked
execute_withdrawal(ch, clock, pw, nullifier_hash) ==
    LET found == SelectSeq(pw, LAMBDA r : r.nullifier_hash = nullifier_hash /\ ~r.executed)
    IN IF found = <<>>
       THEN [ok |-> FALSE, err |-> "InvalidRequest", chain |-> ch, pending |-> pw]
       ELSE LET res == execute_withdrawal_by_record(ch, clock, Head(found))
            IN IF res.ok
               THEN [ok |-> TRUE, err |-> "", chain |-> res.chain,
                     pending |-> MarkExecutedByNullifier(pw, nullifier_hash)]
               ELSE [ok |-> FALSE, err |-> "TransactionFailed",
                     chain |-> res.chain, pending |-> pw]

\* WithdrawalService::get_pending_withdrawals: a clone of the whole list
get_pending_withdrawals(pw) == pw

-----------------------------------------------------------------------------
(* relayer/src/blind_signer.rs and privacy-proxy-sdk/src/blind_sig.rs:
   RSA blind signatures over small moduli *)

\* The width of the digest in the model, in bits (SHA-256 has 256)
HashBits == 4

\* BigUint::modpow
RECURSIVE modpow(_, _, _)
modpow(base, exp, n) ==
    IF n = 1 THEN 0
    ELSE IF exp = 0 THEN 1
    ELSE (base * modpow(base, exp - 1, n)) % n

\* BigUint::to_bytes_be: base-256 digits, most significant first; [0] for zero
RECURSIVE to_bytes_be(_)
to_bytes_be(x) ==
    IF x < 256 THEN <<x>> ELSE Append(to_bytes_be(x \div 256), x % 256)

\* BigUint::from_bytes_be
RECURSIVE from_bytes_be(_)
from_bytes_be(bytes) ==
    IF bytes = <<>> THEN 0
    ELSE from_bytes_be(SubSeq(bytes, 1, Len(bytes) - 1)) * 256 + bytes[Len(bytes)]

\* RSA keys: a modulus longer than the digest (33 = 3 * 11 > 2^HashBits), as
\* with RSA_KEY_BITS above 256, and one that is not (15 = 3 * 5)
LongKey == [n |-> 33, e |-> 3, d |-> 7]
ShortKey == [n |-> 15, e |-> 3, d |-> 3]
RsaKeys == {LongKey, ShortKey}

\* The token ids of the model, each named by its SHA-256 digest
TokenMessages == {<<"token_id", h>> : h \in 0..(Pow2(HashBits) - 1)}

\* Sha256::digest(message), as the bytes of the digest
Sha256(message) == to_bytes_be(message[2])

\* blind_sig.rs: gcd
RECURSIVE gcd(_, _)
gcd(a, b) == IF b > 0 THEN gcd(b, a % b) ELSE a

\* blind_sig.rs: mod_inverse, the loop of the extended Euclidean algorithm
\* with the sign of each coefficient tracked beside its magnitude
RECURSIVE mod_inverse_loop(_, _, _, _)
mod_inverse_loop(old_r, r, old_s, s) ==
    IF r > 0
    THEN LET quotient == old_r \div r
             qs == quotient * s.v
             next_s == IF old_s.neg = s.neg
                       THEN IF old_s.v >= qs
                            THEN [v |-> old_s.v - qs, neg |-> old_s.neg]
                            ELSE [v |-> qs - old_s.v, neg |-> ~old_s.neg]
                       ELSE [v |-> old_s.v + qs, neg |-> old_s.neg]
         IN mod_inverse_loop(r, old_r - quotient * r, s, next_s)
    ELSE [old_r |-> old_r, old_s |-> old_s]

\* blind_sig.rs: mod_inverse
mod_inverse(a, n) ==
    LET end == mod_inverse_loop(n, a, [v |-> 0, neg |-> FALSE], [v |-> 1, neg |-> FALSE])
    IN IF end.old_r > 1 THEN None
       ELSE IF end.old_s.neg THEN Some(n - end.old_s.v)
       ELSE Some(end.old_s.v)

\* blind_sig.rs: generate_blinding_factor, the values it can return
BlindingFactors(n) == {r \in 0..(n - 1) : r > 1 /\ gcd(r, n) = 1}

\* blind_sig.rs: blind_message with the blinding factor r drawn
blind_message(message, pubkey, r) ==
    LET m == from_bytes_be(Sha256(message))
        r_inv == mod_inverse(r, pubkey.n)
    IN IF r_inv = None
       THEN [ok |-> FALSE, blinded |-> <<>>, r |-> r, r_inv |-> 0]
       ELSE [ok |-> TRUE,
             blinded |-> to_bytes_be((m * modpow(r, pubkey.e, pubkey.n)) % pubkey.n),
             r |-> r, r_inv |-> r_inv[1]]

\* blind_sig.rs: unblind_signature
unblind_signature(blinded_sig, blinding_factor, pubkey) ==
    to_bytes_be((from_bytes_be(blinded_sig) * blinding_factor.r_inv) % pubkey.n)

\* blind_signer.rs: BlindSigner::sign_blinded
sign_blinded(key, blinded_message) ==
    LET m_blind == from_bytes_be(blinded_message)
    IN IF m_blind >= key.n
       THEN [ok |-> FALSE, err |-> "InvalidBlindedToken", signature |-> <<>>]
       ELSE [ok |-> TRUE, err |-> "",
             signature |-> to_bytes_be(modpow(m_blind, key.d, key.n))]

\* A verification that accepts whatever signature it is shown
VerifyAnything(key, message, signature) == TRUE

\* blind_signer.rs: BlindSigner::verify_signature
rsa_verify_signature(key, message, signature) ==
    LET m == from_bytes_be(Sha256(message))
        computed == modpow(from_bytes_be(signature), key.e, key.n)
    IN computed = m

-----------------------------------------------------------------------------
(* relayer/src/server.rs: sign_blinded, the POST /sign handler *)

\* config.rs: BUCKET_AMOUNTS[0] in lamports; BUCKET_AMOUNTS above is in this unit
LAMPORTS_PER_UNIT == 100000000
BPS_DENOMINATOR == 10000
FETCH_ATTEMPTS == 10
LAST_ATTEMPT == 9

\* config.rs: get_bucket_id, of an amount in lamports
get_bucket_id_of_lamports(amount) ==
    IF amount % LAMPORTS_PER_UNIT = 0
    THEN get_bucket_id(amount \div LAMPORTS_PER_UNIT)
    ELSE None

\* config.rs: calculate_total_with_fee. The product amount * fee_bps, which the
\* code forms in 128 bits, is formed here from the quotient and the remainder
\* of amount by 10000, which gives the same floor
calculate_total_with_fee(amount, fee_bps) ==
    LET fee == (amount \div BPS_DENOMINATOR) * fee_bps
                 + ((amount % BPS_DENOMINATOR) * fee_bps) \div BPS_DENOMINATOR
    IN amount + fee

\* u64::saturating_sub
saturating_sub(a, b) == IF a >= b THEN a - b ELSE 0

\* Iterator::position
position(keys, k) ==
    IF \E i \in 1..Len(keys) : keys[i] = k
    THEN Some(CHOOSE i \in 1..Len(keys) :
                 keys[i] = k /\ \A j \in 1..Len(keys) : keys[j] = k => i <= j)
    ELSE None

\* The answer of POST /sign
SignResponse(ok, err, message, signature) ==
    [ok |-> ok, err |-> err, message |-> message, signature |-> signature]

\* sign_blinded from the fetched transaction on: the error check, the
\* balance check at the relayer's index, then the signature
verify_payment_and_sign(key, req, fee_bps, tx) ==
    LET expected_payment == calculate_total_with_fee(req.amount, fee_bps)
        relayer_idx == position(tx.account_keys, "relayer")
        payer_idx == position(tx.account_keys, req.payer)
        checked == tx.meta # None /\ relayer_idx # None /\ payer_idx # None
        relayer_received ==
            saturating_sub(tx.meta[1].post_balances[relayer_idx[1]],
                           tx.meta[1].pre_balances[relayer_idx[1]])
    IN IF tx.meta # None /\ tx.meta[1].err
       THEN SignResponse(FALSE, "InvalidRequest", "Payment transaction failed", None)
       ELSE IF checked /\ ~(relayer_received >= expected_payment)
       THEN SignResponse(FALSE, "InvalidRequest", "Insufficient payment", None)
       ELSE IF ~checked
       THEN SignResponse(FALSE, "InvalidRequest", "Could not verify payment", None)
       ELSE IF req.blinded_token = None
       THEN SignResponse(FALSE, "InvalidBlindedToken", "Invalid blinded token", None)
       ELSE LET res == sign_blinded(key, req.blinded_token[1])
            IN IF res.ok
               THEN SignResponse(TRUE, "", "", Some(res.signature))
               ELSE SignResponse(FALSE, res.err, "Invalid blinded token", None)

\* A loop that never gives up
RetryAlways(attempt) == "retry"

\* sign_blinded, the retry loop after a failed fetch: sleep and go on, or
\* give up
after_failed_fetch(attempt) ==
    IF attempt < LAST_ATTEMPT THEN "retry" ELSE "give_up"

-----------------------------------------------------------------------------
(* privacy-proxy-sdk/src/client.rs: PrivacyClient. client.net is the traffic
   of its tor_client: the probes with their answers, and the posts *)

\* A client that takes the connection for Tor without a probe
EnsureTorTrusting(c, probe) == [ok |-> TRUE, err |-> "", client |-> c]

\* PrivacyClient::ensure_tor; probe is the answer verify_tor_connection gives
\* if it is asked: "true", "false" or "err"
ensure_tor(c, probe) ==
    IF c.tor_verified
    THEN [ok |-> TRUE, err |-> "", client |-> c]
    ELSE LET probed == [c EXCEPT !.net = Append(@, <<"probe", probe>>)]
         IN IF probe = "err"
            THEN [ok |-> FALSE, err |-> "Network", client |-> probed]
            ELSE IF probe # "true"
            THEN [ok |-> FALSE, err |-> "TorRequired", client |-> probed]
            ELSE [ok |-> TRUE, err |-> "",
                  client |-> [probed EXCEPT !.tor_verified = TRUE]]

\* PrivacyClient::submit_deposit and submit_withdrawal, which differ in the
\* request they build and the path they post to; build and post are what
\* the request constructor and the relayer answer
submit(c, path, probe, build, post) ==
    LET tor == ensure_tor(c, probe)
    IN IF ~tor.ok
       THEN [ok |-> FALSE, err |-> tor.err, client |-> tor.client]
       ELSE IF build # "ok"
       THEN [ok |-> FALSE, err |-> "Request", client |-> tor.client]
       ELSE LET sent == [tor.client EXCEPT !.net = Append(@, <<"post", path>>)]
            IN IF post # "ok"
               THEN [ok |-> FALSE, err |-> "Relayer", client |-> sent]
               ELSE [ok |-> TRUE, err |-> "", client |-> sent]

\* PrivacyClient::verify_tor
verify_tor(c, probe) ==
    LET probed == [c EXCEPT !.net = Append(@, <<"probe", probe>>)]
    IN IF probe = "err"
       THEN [ok |-> FALSE, err |-> "Network", client |-> probed]
       ELSE [ok |-> TRUE, err |-> "",
             client |-> [probed EXCEPT !.tor_verified = (probe = "true")]]

\* PrivacyClient::invalidate_tor_verification
invalidate_tor_verification(c) == [c EXCEPT !.tor_verified = FALSE]

-----------------------------------------------------------------------------
(* Initial values shared by the specifications *)

InitTally ==
    [exec_ok |-> [n \in NullifierHashes |-> 0],
     dep_tx_ok |-> [t \in TokenHashes |-> 0],
     dep_call_ok |-> [t \in TokenHashes |-> 0],
     dep_tx_sent |-> 0,
     wd_calls |-> 0,
     race |-> [n \in 0..(MaxCalls + 1) |->
                 [done |-> 0, sent |-> 0, accepted |-> 0, failed |-> 0]],
     wd_tx_sent |-> 0,
     wd_tx_ok |-> 0,
     calls |-> 0,
     done |-> 0,
     signed |-> <<>>,
     resigned |-> FALSE]

Outcome(op, ok, err, subject) ==
    [op |-> op, ok |-> ok, err |-> err, subject |-> subject]

InitLast == Outcome("boot", TRUE, "", <<>>)

\* An operation whose outcome no property of the specification observes
Unobserved == Outcome("other", TRUE, "", <<>>)

InitPoll == [pc |-> "sleep", eligible |-> <<>>]

\* No POST /sign call is running
SignIdle == [pc |-> "idle"]

\* PrivacyClient::new: tor_verified starts false
InitClient == [tor_verified |-> FALSE, net |-> <<>>]

\* No MerkleService::save_state is running
Savers == {1, 2}
SaveIdle == [p \in Savers |-> [pc |-> "idle"]]

\* No credit is on its way
BlindIdle == [pc |-> "idle"]

\* The tasks of the relayer that take its locks: two POST /deposit handlers,
\* a POST /withdraw handler, and an execution, which is a POST
\* /withdraw/execute handler or a round of the background loop
Tasks == {"deposit1", "deposit2", "withdraw", "execute"}

\* The tokio RwLocks: DepositService::token_store, MerkleService::trees and
\* commitments, WithdrawalService::historical_roots and pending_withdrawals
Locks == {"token_store", "trees", "commitments", "historical_roots",
          "pending_withdrawals"}

\* No task runs, no lock is held, nobody waits
NoLocks ==
    [prog |-> [t \in Tasks |-> <<>>],
     pc |-> [t \in Tasks |-> 1],
     held |-> [l \in Locks |-> {}],
     queue |-> [l \in Locks |-> <<>>]]

\* The side services at rest
SideIdle ==
    /\ sign = SignIdle
    /\ blind = BlindIdle
    /\ client = InitClient
    /\ msave = SaveIdle
    /\ locks = NoLocks

\* No TokenStore::insert is running
InsIdle == [pc |-> "idle", before |-> {}, after |-> {}]

chainVars == <<chain, ledger, now>>
merkleVars == <<merkle, mdisk>>
storeVars == <<store, sdisk, ins>>
sideVars == <<sign, blind, client, msave, locks>>
callVars == <<dep, wd, pending_withdrawals, poll, sideVars>>

\* The relayer right after RelayerState::new on empty directories
RelayerBooted ==
    /\ mdisk = NoMerkleFiles
    /\ merkle = BootMerkle(NoMerkleFiles)
    /\ sdisk = NoFiles
    /\ store = TokenStoreLoad(NoFiles)
    /\ ins = InsIdle
    /\ dep = <<>>
    /\ wd = <<>>
    /\ pending_withdrawals = <<>>
    /\ poll = InitPoll
    /\ SideIdle

\* The commitments the bucket holds locally
LocalList(b) == IF merkle.commitments[b] = None THEN <<>> ELSE merkle.commitments[b][1]

-----------------------------------------------------------------------------
(* ChainSpec: the on-chain program under arbitrary instruction sequences.   *)
(* The ledger is not tracked here: no instruction reads it.                *)

DelayChoices == {0, 1}

\* Roots a caller may pass to the program
ChainRoots == {MerkleTreeRoot(s) : s \in SeqsUpTo(Commitments, 1)}

ChainInit ==
    /\ chain = InitChain
    /\ ledger = InitLedger
    /\ now = 0
    /\ RelayerBooted
    /\ last = InitLast
    /\ tally = InitTally

IxDeposit ==
    \E b \in Buckets, t \in TokenHashes, off \in {0, 1}, r \in ChainRoots :
      /\ chain.pool[b].next_index < MaxDeposits
      /\ LET idx == chain.pool[b].next_index + off
             res == Deposit(chain, [relayer_authorized |-> TRUE, bucket_id |-> b,
                                    commitment |-> "c1", token_hash |-> t,
                                    note_index |-> idx, merkle_root |-> r])
         IN /\ chain' = res.chain
            /\ last' = Unobserved
      /\ UNCHANGED <<ledger, now, merkleVars, storeVars, callVars, tally>>

IxRequestWithdrawal ==
    \E b \in Buckets, n \in NullifierHashes, rc \in Recipients, r \in ChainRoots,
       dl \in DelayChoices, off \in {0, 1}, pf \in BOOLEAN :
      /\ LET idx == chain.pool[b].total_deposits + off
             res == RequestWithdrawal(chain, now,
                        [bucket_id |-> b, nullifier_hash |-> n, recipient |-> rc,
                         merkle_root |-> r, delay_hours |-> dl,
                         pending_index |-> idx, proof_ok |-> pf])
         IN /\ chain' = res.chain
            /\ last' = Unobserved
      /\ UNCHANGED <<ledger, now, merkleVars, storeVars, callVars, tally>>

IxExecuteWithdrawal ==
    \E b \in Buckets, idx \in 0..MaxDeposits, n \in NullifierHashes, rc \in Recipients :
      /\ LET res == ExecuteWithdrawal(chain, now,
                        [pending |-> PendingPda(b, idx), pool |-> b,
                         nullifier_hash |-> n, recipient |-> rc])
         IN /\ chain' = res.chain
            /\ last' = Outcome("execute_withdrawal", res.ok, res.err, <<>>)
            /\ tally' = IF res.ok
                        THEN [tally EXCEPT !.exec_ok[n] = @ + 1]
                        ELSE tally
      /\ UNCHANGED <<ledger, now, merkleVars, storeVars, callVars>>

IxCancelWithdrawal ==
    \E b \in Buckets, idx \in 0..MaxDeposits, pf \in BOOLEAN :
      /\ LET res == CancelWithdrawal(chain, [pending |-> PendingPda(b, idx),
                                             proof_ok |-> pf])
         IN /\ chain' = res.chain
            /\ last' = Unobserved
      /\ UNCHANGED <<ledger, now, merkleVars, storeVars, callVars, tally>>

ClockTick ==
    /\ now < MaxClockHours * SECONDS_PER_HOUR
    /\ now' = now + SECONDS_PER_HOUR
    /\ UNCHANGED <<chain, ledger, merkleVars, storeVars, callVars, last, tally>>

ChainNext ==
    \/ IxDeposit
    \/ IxRequestWithdrawal
    \/ IxExecuteWithdrawal
    \/ IxCancelWithdrawal
    \/ ClockTick

ChainSpec == ChainInit /\ [][ChainNext]_vars

\* C2: for every nullifier_hash at most one execute_withdrawal transaction
\* succeeds, over any sequence of request, execute and cancel instructions.
C2_AtMostOneExecutePerNullifier ==
    \A n \in NullifierHashes : tally.exec_ok[n] <= 1

\* C2 witness: a nullifier was spent, a second pending request carrying it is
\* still Pending, and the execute of that request has just been refused.
C2_Witness ==
    /\ last.op = "execute_withdrawal"
    /\ ~last.ok
    /\ last.err = "AccountInUse"
    /\ \E k \in DOMAIN chain.pending :
          /\ chain.pending[k].status = "Pending"
          /\ chain.pending[k].nullifier_hash \in chain.nullifier
          /\ tally.exec_ok[chain.pending[k].nullifier_hash] = 1

-----------------------------------------------------------------------------
(* StoreSpec: TokenStore::insert file step by file step, with a process     *)
(* crash possible between any two steps and a restart that runs             *)
(* TokenStore::load.                                                        *)

StoreInit ==
    /\ chain = InitChain
    /\ ledger = InitLedger
    /\ now = 0
    /\ RelayerBooted
    /\ last = InitLast
    /\ tally = InitTally

storeFrame ==
    <<chainVars, merkleVars, dep, wd, pending_withdrawals, poll, sideVars, tally>>

\* insert: self.cache.insert(hash) and the checksum update, in memory
InsertBegin ==
    \E h \in StoreHashes :
      /\ ins.pc = "idle"
      /\ IF TokenStoreContains(store, h)
         THEN UNCHANGED <<store, ins>>
         ELSE /\ store' = InsertCache(store, h)
              /\ ins' = [pc |-> "create", before |-> store.cache,
                         after |-> store.cache \cup {h}]
      /\ last' = Unobserved
      /\ UNCHANGED <<sdisk, storeFrame>>

InsertCreateTmp ==
    /\ ins.pc = "create"
    /\ sdisk' = CreateTmp(sdisk)
    /\ ins' = [ins EXCEPT !.pc = "write"]
    /\ UNCHANGED <<store, last, storeFrame>>

InsertWriteTmp ==
    /\ ins.pc = "write"
    /\ sdisk' = WriteTmp(sdisk, store)
    /\ ins' = [ins EXCEPT !.pc = "truncate"]
    /\ UNCHANGED <<store, last, storeFrame>>

InsertTruncateChecksum ==
    /\ ins.pc = "truncate"
    /\ sdisk' = TruncateChecksum(sdisk)
    /\ ins' = [ins EXCEPT !.pc = "checksum"]
    /\ UNCHANGED <<store, last, storeFrame>>

InsertWriteChecksum ==
    /\ ins.pc = "checksum"
    /\ sdisk' = WriteChecksum(sdisk, store)
    /\ ins' = [ins EXCEPT !.pc = "rename"]
    /\ UNCHANGED <<store, last, storeFrame>>

InsertRenameTmp ==
    /\ ins.pc = "rename"
    /\ sdisk' = RenameTmp(sdisk)
    /\ ins' = InsIdle
    /\ last' = Outcome("insert", TRUE, "", <<>>)
    /\ UNCHANGED <<store, storeFrame>>

\* The process dies inside insert: memory is lost, the files stay as they are
Crash ==
    /\ ins.pc \notin {"idle", "down"}
    /\ ins' = [ins EXCEPT !.pc = "down"]
    /\ store' = TokenStoreLoad(NoFiles)
    /\ last' = Unobserved
    /\ UNCHANGED <<sdisk, storeFrame>>

\* DepositService::new after the crash: TokenStore::load(token_path)
Restart ==
    /\ ins.pc = "down"
    /\ store' = TokenStoreLoad(sdisk)
    /\ ins' = InsIdle
    /\ last' = Outcome("restart", TRUE, "", [before |-> ins.before, after |-> ins.after])
    /\ UNCHANGED <<sdisk, storeFrame>>

StoreNext ==
    \/ InsertBegin
    \/ InsertCreateTmp
    \/ InsertWriteTmp
    \/ InsertTruncateChecksum
    \/ InsertWriteChecksum
    \/ InsertRenameTmp
    \/ Crash
    \/ Restart

StoreSpec == StoreInit /\ [][StoreNext]_vars

\* C6: after a crash inside TokenStore::insert and a restart, TokenStore::load
\* yields exactly the set before the insert or exactly the set with the new hash.
C6_LoadAfterCrashIsOldOrNew ==
    (last.op = "restart" /\ ins.pc = "idle")
        => store.cache \in {last.subject.before, last.subject.after}

-----------------------------------------------------------------------------
(* LoadSpec: TokenStore::load as a function of the files it finds.  Init    *)
(* draws the data file and the checksum file; the one action loads.         *)

\* Contents of used_tokens.dat: absent, or the hashes of its 32-byte chunks
DatFiles == {None} \cup {Some(S) : S \in SUBSET StoreHashes}

\* Contents of used_tokens.checksum: absent, not 32 bytes long, or a digest
ChecksumFiles ==
    {None, Some(ShortFile)} \cup {Some(compute_checksum(S)) : S \in SUBSET StoreHashes}

LoadInit ==
    /\ chain = InitChain
    /\ ledger = InitLedger
    /\ now = 0
    /\ mdisk = NoMerkleFiles
    /\ merkle = BootMerkle(NoMerkleFiles)
    /\ \E d \in DatFiles, c \in ChecksumFiles :
          sdisk = [dat |-> d, checksum |-> c, tmp |-> None]
    /\ store = TokenStoreLoad(NoFiles)
    /\ ins = [InsIdle EXCEPT !.pc = "down"]
    /\ dep = <<>>
    /\ wd = <<>>
    /\ pending_withdrawals = <<>>
    /\ poll = InitPoll
    /\ SideIdle
    /\ last = InitLast
    /\ tally = InitTally

\* DepositService::new: TokenStore::load(token_path)
Load ==
    /\ ins.pc = "down"
    /\ store' = TokenStoreLoad(sdisk)
    /\ ins' = InsIdle
    /\ last' = Outcome("load", TRUE, "", <<>>)
    /\ UNCHANGED <<sdisk, storeFrame>>

LoadNext == Load

LoadSpec == LoadInit /\ [][LoadNext]_vars

\* C7: TokenStore::load returns a non-empty set only when the data file and the
\* checksum file are both present and the checksum over the loaded hashes equals
\* the stored one.
C7_NonEmptyOnlyWhenVerified ==
    (last.op = "load" /\ store.cache # {})
        => /\ sdisk.dat # None
           /\ sdisk.checksum # None
           /\ sdisk.checksum[1] = compute_checksum(store.cache)

-----------------------------------------------------------------------------
(* MerkleSpec: the MerkleService operations on one booted relayer, each     *)
(* taken as a whole (every operation holds the write locks it needs).       *)

MerkleInit ==
    /\ chain = InitChain
    /\ ledger = InitLedger
    /\ now = 0
    /\ RelayerBooted
    /\ last = InitLast
    /\ tally = InitTally

merkleFrame ==
    <<chainVars, storeVars, dep, wd, pending_withdrawals, poll, sideVars, tally>>

\* MerkleService::insert(bucket_id, commitment)
MsInsert ==
    \E b \in Buckets, c \in Commitments, io_ok \in BOOLEAN :
      /\ size_or_zero(merkle, b) < MaxSeqLen
      /\ LET res == insert(merkle, mdisk, b, c, io_ok)
         IN /\ merkle' = res.merkle
            /\ mdisk' = res.mdisk
            /\ last' = Unobserved
      /\ UNCHANGED merkleFrame

\* MerkleService::sync_from_chain(bucket_id, on_chain_commitments)
MsSyncFromChain ==
    \E b \in Buckets, L \in SeqsUpTo(Commitments, MaxSeqLen), io_ok \in BOOLEAN :
      /\ LET res == sync_from_chain(merkle, mdisk, b, L, io_ok)
         IN /\ merkle' = res.merkle
            /\ mdisk' = res.mdisk
            /\ last' = Outcome("sync_from_chain", res.ok, res.err,
                               [bucket_id |-> b, list |-> L])
      /\ UNCHANGED merkleFrame

\* The relayer stops and RelayerState::new runs again on the same directory
MsRestart ==
    /\ merkle' = BootMerkle(mdisk)
    /\ last' = Unobserved
    /\ UNCHANGED <<mdisk, merkleFrame>>

MerkleNext ==
    \/ MsInsert
    \/ MsSyncFromChain
    \/ MsRestart

MerkleSpec == MerkleInit /\ [][MerkleNext]_vars

\* C8: after sync_from_chain(bucket, L) returns ok, the bucket's commitment list
\* equals L and the bucket's tree is the tree built by inserting L in order.
C8_SyncInstallsTheList ==
    (last.op = "sync_from_chain" /\ last.ok)
        => /\ merkle.commitments[last.subject.bucket_id] = Some(last.subject.list)
           /\ merkle.trees[last.subject.bucket_id] = Some(BuildTree(last.subject.list))

-----------------------------------------------------------------------------
(* DepositSpec: handle_deposit calls running concurrently in one relayer    *)
(* process.  A call advances from one await point to the next; the steps of *)
(* different calls interleave.  Tree and token files are written without    *)
(* I/O error here; an RPC request may fail.                                 *)

\* The calls that may be in flight at once
CallIds == {1, 2}

\* Amounts a credit may carry: BUCKET_AMOUNTS[0], and one that is no bucket
Amounts == {1, 2}

\* The signatures a request may carry for a token id: the relayer's, or not
SignaturesFor(token_id) == {SignatureOf(token_id), <<"sig", "forged">>}

DepIdle ==
    [pc |-> "idle", token_hash |-> hash_token_id("k1"), commitment |-> "c1",
     bucket_id |-> 0, on_chain_next_index |-> 0, merkle_root |-> ZeroBytes,
     leaf_index |-> 0, later |-> FALSE, size_at_entry |-> 0, raced |-> FALSE]

DepositInit ==
    /\ chain = InitChain
    /\ ledger = InitLedger
    /\ now = 0
    /\ mdisk = NoMerkleFiles
    /\ merkle = BootMerkle(NoMerkleFiles)
    /\ sdisk = NoFiles
    /\ store = TokenStoreLoad(NoFiles)
    /\ ins = InsIdle
    /\ dep = [i \in CallIds |-> DepIdle]
    /\ wd = <<>>
    /\ pending_withdrawals = <<>>
    /\ poll = InitPoll
    /\ SideIdle
    /\ last = InitLast
    /\ tally = InitTally

depFrame == <<now, ins, wd, pending_withdrawals, poll, sideVars>>

\* What the caller of handle_deposit gets back, with the state it returns in
DepositOutcome(call, credit_valid, ok, err, detail, m, ch) ==
    Outcome("handle_deposit", ok, err,
            [token_hash |-> call.token_hash,
             credit_valid |-> credit_valid,
             later |-> call.later,
             detail |-> detail,
             size_at_entry |-> call.size_at_entry,
             size_at_exit |-> size_or_zero(m, call.bucket_id),
             local_root |-> root(m, call.bucket_id).value,
             chain_root |-> ch.pool[call.bucket_id].merkle_root])

\* handle_deposit is called: verify_credit, check_token_not_used, get_bucket_id
DepEnter(i) ==
    \E k \in TokenIds, c \in Commitments, a \in Amounts :
      \E sg \in SignaturesFor(k) :
        LET request == [credit |-> [token_id |-> k, signature |-> sg, amount |-> a],
                        commitment |-> c]
            chk == EntryChecks(store, request)
            call == [DepIdle EXCEPT !.token_hash = hash_token_id(k),
                                    !.commitment = c,
                                    !.later = tally.dep_call_ok[hash_token_id(k)] > 0,
                                    !.size_at_entry = size_or_zero(merkle, 0)]
        IN /\ dep[i].pc = "idle"
           /\ tally.calls < MaxCalls
           /\ store' = chk.store
           /\ IF chk.err = ""
              THEN /\ dep' = [dep EXCEPT ![i] = [call EXCEPT !.pc = "fetch",
                                                           !.bucket_id = chk.bucket_id[1]]]
                   /\ last' = last
                   /\ tally' = [tally EXCEPT !.calls = @ + 1]
              ELSE /\ dep' = dep
                   /\ last' = DepositOutcome(call, verify_credit(request.credit),
                                             FALSE, chk.err, "", merkle, chain)
                   /\ tally' = [tally EXCEPT !.calls = @ + 1, !.done = @ + 1]
           /\ UNCHANGED <<chainVars, merkleVars, sdisk, depFrame>>

\* A call in flight returns: its slot is free again
DepReturn(i, ok, err, detail, m, ch) ==
    /\ dep' = [dep EXCEPT ![i] = DepIdle]
    /\ last' = DepositOutcome(dep[i], TRUE, ok, err, detail, m, ch)

\* The calls in flight that hold a next_index they fetched and have not yet
\* sent their transaction
Observing == {"size", "sync", "insert", "root", "exec"}

\* Call i has fetched next_index = n. It races with every call of the same
\* bucket in flight that holds the same n: both are marked
ObserveNextIndex(i, n) ==
    LET rivals == {j \in CallIds \ {i} : /\ dep[j].pc \in Observing
                                         /\ dep[j].bucket_id = dep[i].bucket_id
                                         /\ dep[j].on_chain_next_index = n}
    IN [j \in CallIds |->
          IF j = i
          THEN [dep[i] EXCEPT !.pc = "size", !.on_chain_next_index = n,
                              !.raced = rivals # {}]
          ELSE IF j \in rivals THEN [dep[j] EXCEPT !.raced = TRUE]
          ELSE dep[j]]

\* The count of the raced calls that have returned, by the next_index they
\* held: how many, how many of their transactions reached the program, how
\* many were accepted, and how many calls failed
RaceCount(race, call, sent, accepted, ok) ==
    IF ~call.raced THEN race
    ELSE [race EXCEPT ![call.on_chain_next_index] =
            [done |-> @.done + 1,
             sent |-> @.sent + (IF sent THEN 1 ELSE 0),
             accepted |-> @.accepted + (IF accepted THEN 1 ELSE 0),
             failed |-> @.failed + (IF ok THEN 0 ELSE 1)]]

\* Step 4: get_on_chain_next_index; the RPC request may fail
DepFetchNextIndex(i) ==
    \E rpc_ok \in BOOLEAN :
      /\ dep[i].pc = "fetch"
      /\ IF rpc_ok
         THEN /\ dep' = ObserveNextIndex(i, get_on_chain_next_index(chain, dep[i].bucket_id))
              /\ UNCHANGED <<last, tally>>
         ELSE /\ DepReturn(i, FALSE, "TransactionFailed", "pool", merkle, chain)
              /\ tally' = [tally EXCEPT !.done = @ + 1]
      /\ UNCHANGED <<chainVars, merkleVars, storeVars, depFrame>>

\* Step 4: merkle_service.size(bucket_id) and the comparison with the chain
DepLocalSize(i) ==
    /\ dep[i].pc = "size"
    /\ dep' = [dep EXCEPT ![i].pc =
                  IF size_or_zero(merkle, dep[i].bucket_id) # dep[i].on_chain_next_index
                  THEN "sync" ELSE "insert"]
    /\ UNCHANGED <<chainVars, merkleVars, storeVars, depFrame, last, tally>>

\* Step 4: sync_local_tree(bucket_id, on_chain_next_index)
DepSync(i) ==
    \E history_ok \in BOOLEAN :
      /\ dep[i].pc = "sync"
      /\ LET res == sync_local_tree(merkle, mdisk, ledger, dep[i].bucket_id,
                                    dep[i].on_chain_next_index, history_ok)
         IN /\ merkle' = res.merkle
            /\ mdisk' = res.mdisk
            /\ IF res.ok
               THEN /\ dep' = [dep EXCEPT ![i].pc = "insert"]
                    /\ UNCHANGED <<last, tally>>
               ELSE /\ DepReturn(i, FALSE, res.err, "history", res.merkle, chain)
                    /\ tally' = [tally EXCEPT
                                   !.done = @ + 1,
                                   !.race = RaceCount(@, dep[i], FALSE, FALSE, FALSE)]
      /\ UNCHANGED <<chainVars, storeVars, depFrame>>

\* Step 5: merkle_service.insert(bucket_id, commitment)
DepInsert(i) ==
    /\ dep[i].pc = "insert"
    /\ LET res == insert(merkle, mdisk, dep[i].bucket_id, dep[i].commitment, TRUE)
       IN /\ merkle' = res.merkle
          /\ mdisk' = res.mdisk
          /\ IF res.ok
             THEN /\ dep' = [dep EXCEPT ![i].pc = "root", ![i].leaf_index = res.value]
                  /\ UNCHANGED <<last, tally>>
             ELSE /\ DepReturn(i, FALSE, res.err, "", res.merkle, chain)
                  /\ tally' = [tally EXCEPT
                                 !.done = @ + 1,
                                 !.race = RaceCount(@, dep[i], FALSE, FALSE, FALSE)]
    /\ UNCHANGED <<chainVars, storeVars, depFrame>>

\* Step 5: merkle_service.root(bucket_id)
DepRoot(i) ==
    /\ dep[i].pc = "root"
    /\ LET res == root(merkle, dep[i].bucket_id)
       IN IF res.ok
          THEN /\ dep' = [dep EXCEPT ![i].pc = "exec", ![i].merkle_root = res.value]
               /\ UNCHANGED <<last, tally>>
          ELSE /\ DepReturn(i, FALSE, res.err, "", merkle, chain)
               /\ tally' = [tally EXCEPT
                              !.done = @ + 1,
                              !.race = RaceCount(@, dep[i], FALSE, FALSE, FALSE)]
    /\ UNCHANGED <<chainVars, merkleVars, storeVars, depFrame>>

\* Step 6: execute_deposit; send_and_confirm_transaction either does not reach
\* the cluster or is processed by the program
DepExecute(i) ==
    \E rpc_ok \in BOOLEAN :
      /\ dep[i].pc = "exec"
      /\ LET call == dep[i]
             res == IF rpc_ok
                    THEN Deposit(chain, DepositInstruction(call.bucket_id, call.commitment,
                                     call.token_hash, call.merkle_root,
                                     call.on_chain_next_index))
                    ELSE TxErr(chain, "rpc")
         IN /\ chain' = res.chain
            /\ ledger' = IF res.ok
                         THEN [ledger EXCEPT ![call.bucket_id] =
                                  Append(@, TxRecord(FALSE,
                                                     DepositLogCommitments(call.commitment)))]
                         ELSE ledger
            /\ IF NextAfterExecute(res.ok) = "mark"
               THEN /\ dep' = [dep EXCEPT ![i].pc = "mark"]
                    /\ last' = last
                    /\ tally' = [tally EXCEPT
                                   !.dep_tx_sent = IF rpc_ok THEN @ + 1 ELSE @,
                                   !.dep_tx_ok[call.token_hash] =
                                       IF res.ok THEN @ + 1 ELSE @]
               ELSE /\ DepReturn(i, FALSE, "TransactionFailed", res.err, merkle, res.chain)
                    /\ tally' = [tally EXCEPT
                                   !.dep_tx_sent = IF rpc_ok THEN @ + 1 ELSE @,
                                   !.done = @ + 1,
                                   !.race = RaceCount(@, call, rpc_ok, FALSE, FALSE)]
      /\ UNCHANGED <<now, merkleVars, storeVars, depFrame>>

\* Step 7: mark_token_used, then Ok(DepositResponse); fail_at names the file
\* step of the token store that fails, 0 for none
DepMarkWith(i, fail_at) ==
    /\ dep[i].pc = "mark"
    /\ LET res == mark_token_used(store, sdisk, dep[i].token_hash, fail_at)
       IN /\ store' = res.store
          /\ sdisk' = res.disk
          /\ IF res.ok
             THEN /\ DepReturn(i, TRUE, "", "", merkle, chain)
                  /\ tally' = [tally EXCEPT
                                 !.dep_call_ok[dep[i].token_hash] = @ + 1,
                                 !.done = @ + 1,
                                 !.race = RaceCount(@, dep[i], TRUE, TRUE, TRUE)]
             ELSE /\ DepReturn(i, FALSE, "Internal", "", merkle, chain)
                  /\ tally' = [tally EXCEPT
                                 !.done = @ + 1,
                                 !.race = RaceCount(@, dep[i], TRUE, TRUE, FALSE)]
    /\ UNCHANGED <<chainVars, merkleVars, depFrame>>

\* Step 7 with the files of the token store written without error
DepMark(i) == DepMarkWith(i, 0)

DepositNext ==
    \/ \E i \in CallIds : DepEnter(i)
    \/ \E i \in CallIds : DepFetchNextIndex(i)
    \/ \E i \in CallIds : DepLocalSize(i)
    \/ \E i \in CallIds : DepSync(i)
    \/ \E i \in CallIds : DepInsert(i)
    \/ \E i \in CallIds : DepRoot(i)
    \/ \E i \in CallIds : DepExecute(i)
    \/ \E i \in CallIds : DepMark(i)

DepositSpec == DepositInit /\ [][DepositNext]_vars

\* The hashes the token store holds, in memory or in any of its files
StoredHashes ==
    store.cache
      \cup (IF sdisk.dat = None THEN {} ELSE sdisk.dat[1])
      \cup (IF sdisk.tmp = None THEN {} ELSE sdisk.tmp[1])

\* The errors handle_deposit returns from its steps 1-3
EarlyErrors == {"InvalidSignature", "TokenAlreadyRedeemed", "InvalidBucket"}

\* C1: for every token, at most one on-chain deposit transaction carrying its
\* hash succeeds and at most one handle_deposit call returns success, whatever
\* the interleaving of the concurrent calls.
C1_AtMostOneDepositPerToken ==
    \A h \in TokenHashes :
      /\ tally.dep_tx_ok[h] <= 1
      /\ tally.dep_call_ok[h] <= 1

\* C1 witness: two calls raced with the same token, both passed the store
\* check, one transaction was confirmed and the other was refused by the
\* used_token account.
C1_Witness ==
    /\ last.op = "handle_deposit"
    /\ ~last.ok
    /\ last.err = "TransactionFailed"
    /\ last.subject.detail = "AccountInUse"
    /\ ~last.subject.later
    /\ tally.dep_tx_ok[last.subject.token_hash] = 1

\* C3 as stated: once handle_deposit has succeeded for a credit, every later
\* call with the same token_id fails with TokenAlreadyRedeemed (409) and leaves
\* the tree size unchanged.
C3_LaterSameTokenIdRejected ==
    (last.op = "handle_deposit" /\ last.subject.later)
        => /\ ~last.ok
           /\ last.err = "TokenAlreadyRedeemed"
           /\ StatusCode(last.err) = 409
           /\ last.subject.size_at_exit = last.subject.size_at_entry

\* C3, amended: once handle_deposit has succeeded for a credit, every later
\* call carrying the same token_id with a signature that verifies fails with
\* TokenAlreadyRedeemed (409) and leaves the tree size unchanged.
C3_LaterSameCreditRejected ==
    (last.op = "handle_deposit" /\ last.subject.later /\ last.subject.credit_valid)
        => /\ ~last.ok
           /\ last.err = "TokenAlreadyRedeemed"
           /\ StatusCode(last.err) = 409
           /\ last.subject.size_at_exit = last.subject.size_at_entry

\* C3 witness: a credit was redeemed, and a replay of it has just been refused.
C3_Witness ==
    /\ last.op = "handle_deposit"
    /\ last.subject.later
    /\ last.subject.credit_valid
    /\ last.err = "TokenAlreadyRedeemed"
    /\ tally.dep_call_ok[last.subject.token_hash] = 1
    /\ last.subject.size_at_entry > 0

\* C4: the token store, in memory and on disk, holds a hash only once a deposit
\* transaction carrying it has been confirmed: a failed submission adds nothing.
C4_StoredOnlyAfterConfirmedDeposit ==
    \A h \in StoredHashes : tally.dep_tx_ok[h] >= 1

\* C4 witness: a call inserted its commitment in the tree, its transaction was
\* refused by the program, and its token hash is nowhere in the store.
C4_Witness ==
    /\ last.op = "handle_deposit"
    /\ last.err = "TransactionFailed"
    /\ last.subject.detail = "ConstraintSeeds"
    /\ last.subject.size_at_exit > last.subject.size_at_entry
    /\ last.subject.token_hash \notin StoredHashes

\* C5: a handle_deposit call that fails with InvalidSignature,
\* TokenAlreadyRedeemed or InvalidBucket changes neither the trees (memory and
\* disk) nor the token store, and submits no on-chain transaction.
C5_EarlyRejectionChangesNothing ==
    [][(/\ tally'.done # tally.done
        /\ last'.op = "handle_deposit"
        /\ last'.err \in EarlyErrors)
          => /\ UNCHANGED <<merkle, mdisk, store, sdisk, chain, ledger>>
             /\ tally'.dep_tx_sent = tally.dep_tx_sent]_vars

\* C5 witness: with a commitment in the tree and a hash in the store, a call
\* with a valid, unredeemed credit has just been refused for its amount.
C5_Witness ==
    /\ last.op = "handle_deposit"
    /\ last.err = "InvalidBucket"
    /\ last.subject.size_at_entry > 0
    /\ store.cache # {}
    /\ last.subject.token_hash \notin store.cache

\* C9: at the end of every successful handle_deposit call the relayer's local
\* root for the bucket equals the merkle_root of the on-chain pool account.
C9_LocalRootIsChainRoot ==
    (last.op = "handle_deposit" /\ last.ok)
        => last.subject.local_root = last.subject.chain_root

-----------------------------------------------------------------------------
(* WithdrawSpec: one handle_withdrawal call at a time, the background loop  *)
(* of main, and deposits to the same pool landing on the chain in between.  *)
(* Every RPC request succeeds.  The ledger is not tracked here: nothing in  *)
(* the withdrawal path reads it.                                            *)

WdIdle ==
    [pc |-> "idle", nullifier_hash |-> "n1", recipient |-> "rcpt1",
     root |-> ZeroBytes, proof_ok |-> TRUE, delay_hours |-> 0, bucket_id |-> 0,
     total_deposits |-> 0]

WithdrawInit ==
    /\ chain = InitChain
    /\ ledger = InitLedger
    /\ now = 0
    /\ mdisk = NoMerkleFiles
    /\ merkle = BootMerkle(NoMerkleFiles)
    /\ sdisk = NoFiles
    /\ store = TokenStoreLoad(NoFiles)
    /\ ins = InsIdle
    /\ dep = <<>>
    /\ wd = WdIdle
    /\ pending_withdrawals = <<>>
    /\ poll = InitPoll
    /\ SideIdle
    /\ last = InitLast
    /\ tally = InitTally

wdFrame == <<ledger, merkleVars, storeVars, dep, sideVars>>

\* The public inputs of a request, with the verifier's verdict on its proof
WithdrawalRequest(amount, fee, n, rc, rl, bh, r) ==
    [amount |-> amount, fee |-> fee, nullifier_hash |-> n, recipient |-> rc,
     relayer |-> rl, binding_hash |-> bh, root |-> r, proof_ok |-> TRUE]

\* Requests for bucket 0 that pass validate
WellFormedRequests ==
    {WithdrawalRequest(BUCKET_AMOUNTS[0], 0, n, rc, "relayer", "binding", r) :
        n \in NullifierHashes, rc \in Recipients, r \in ChainRoots}

\* Requests with one defect each: no amount, a fee that is not below the
\* amount, a zero field, or an amount that is no bucket's
DefectiveRequests ==
    {WithdrawalRequest(0, 0, "n1", "rcpt1", "relayer", "binding", get_initial_merkle_root),
     WithdrawalRequest(1, 1, "n1", "rcpt1", "relayer", "binding", get_initial_merkle_root),
     WithdrawalRequest(1, 2, "n1", "rcpt1", "relayer", "binding", get_initial_merkle_root),
     WithdrawalRequest(1, 0, AllZero, "rcpt1", "relayer", "binding", get_initial_merkle_root),
     WithdrawalRequest(1, 0, "n1", AllZero, "relayer", "binding", get_initial_merkle_root),
     WithdrawalRequest(1, 0, "n1", "rcpt1", AllZero, "binding", get_initial_merkle_root),
     WithdrawalRequest(1, 0, "n1", "rcpt1", "relayer", AllZero, get_initial_merkle_root),
     WithdrawalRequest(3, 0, "n1", "rcpt1", "relayer", "binding", get_initial_merkle_root)}

\* handle_withdrawal is called with one of the given requests: validate,
\* get_bucket_id, verify_merkle_root
WdEnterWith(requests) ==
    \E request \in requests, dl \in DelayChoices :
      /\ wd.pc = "idle"
      /\ tally.wd_calls < MaxWithdrawals
      /\ LET bucket == get_bucket_id(request.amount)
             fail(err) ==
                 /\ wd' = wd
                 /\ last' = Outcome("handle_withdrawal", FALSE, err,
                                    [request |-> request])
                 /\ tally' = [tally EXCEPT !.wd_calls = @ + 1, !.done = @ + 1]
         IN IF ~validate(request) THEN fail("InvalidRequest")
            ELSE IF bucket = None THEN fail("InvalidBucket")
            ELSE IF ~verify_merkle_root(merkle, request.root, bucket[1])
                 THEN fail("MerkleTree")
            ELSE /\ wd' = [WdIdle EXCEPT !.pc = "fetch",
                                         !.nullifier_hash = request.nullifier_hash,
                                         !.recipient = request.recipient,
                                         !.root = request.root,
                                         !.proof_ok = request.proof_ok,
                                         !.delay_hours = dl,
                                         !.bucket_id = bucket[1]]
                 /\ last' = last
                 /\ tally' = [tally EXCEPT !.wd_calls = @ + 1]
      /\ UNCHANGED <<chain, now, pending_withdrawals, poll, wdFrame>>

\* handle_withdrawal is called with a well-formed request
WdEnter == WdEnterWith(WellFormedRequests)

\* handle_withdrawal is called with any request
WdEnterAny == WdEnterWith(WellFormedRequests \cup DefectiveRequests)

\* submit_withdrawal_request: get_account_data(pool), total_deposits parsed
WdFetchTotalDeposits ==
    /\ wd.pc = "fetch"
    /\ wd' = [wd EXCEPT !.pc = "submit",
                        !.total_deposits = chain.pool[wd.bucket_id].total_deposits]
    /\ UNCHANGED <<chain, now, pending_withdrawals, poll, last, tally, wdFrame>>

\* submit_withdrawal_request: send_and_confirm_transaction
WdSubmit ==
    /\ wd.pc = "submit"
    /\ LET res == RequestWithdrawal(chain, now,
                      WithdrawalInstruction(wd.bucket_id, wd, wd.delay_hours,
                                            wd.total_deposits))
       IN /\ chain' = res.chain
          /\ IF res.ok
             THEN /\ wd' = [wd EXCEPT !.pc = "track"]
                  /\ last' = last
                  /\ tally' = [tally EXCEPT !.wd_tx_sent = @ + 1, !.wd_tx_ok = @ + 1]
             ELSE /\ wd' = WdIdle
                  /\ last' = Outcome("handle_withdrawal", FALSE, "TransactionFailed", <<>>)
                  /\ tally' = [tally EXCEPT !.wd_tx_sent = @ + 1, !.done = @ + 1]
    /\ UNCHANGED <<now, pending_withdrawals, poll, wdFrame>>

\* handle_withdrawal step 4: total_deposits fetched again, the record pushed
WdTrack ==
    /\ wd.pc = "track"
    /\ pending_withdrawals' =
          Append(pending_withdrawals,
                 PendingWithdrawalRecord(wd.bucket_id, wd,
                     chain.pool[wd.bucket_id].total_deposits, now, wd.delay_hours))
    /\ wd' = WdIdle
    /\ last' = Outcome("handle_withdrawal", TRUE, "", <<>>)
    /\ tally' = [tally EXCEPT !.done = @ + 1]
    /\ UNCHANGED <<chain, now, poll, wdFrame>>

\* main: interval.tick() fires; poll_and_execute selects the eligible records
PollTick ==
    /\ poll.pc = "sleep"
    /\ LET eligible == Eligible(pending_withdrawals, now)
       IN poll' = IF eligible = <<>> THEN poll
                  ELSE [pc |-> "exec", eligible |-> eligible]
    /\ UNCHANGED <<chain, now, wd, pending_withdrawals, last, tally, wdFrame>>

\* poll_and_execute: the loop body for the next eligible record
PollExecute ==
    /\ poll.pc = "exec"
    /\ LET record == Head(poll.eligible)
           res == execute_withdrawal_by_record(chain, now, record)
           rest == Tail(poll.eligible)
       IN /\ chain' = res.chain
          /\ pending_withdrawals' =
                IF res.ok THEN MarkExecuted(pending_withdrawals, record.pda)
                ELSE pending_withdrawals
          /\ poll' = IF rest = <<>> THEN InitPoll ELSE [poll EXCEPT !.eligible = rest]
          /\ last' = Outcome("poll_execute", res.ok, res.err, <<>>)
    /\ UNCHANGED <<now, wd, tally, wdFrame>>

\* A deposit to the pool is confirmed on the chain: the transaction that the
\* deposit pipeline, running beside the withdrawal, submits in execute_deposit
PoolDeposit ==
    \E b \in Buckets, t \in TokenHashes, r \in ChainRoots :
      LET res == Deposit(chain, DepositInstruction(b, "c1", t, r,
                                    get_on_chain_next_index(chain, b)))
      IN /\ chain.pool[b].total_deposits < MaxPoolDeposits
         /\ res.ok
         /\ chain' = res.chain
         /\ UNCHANGED <<now, wd, pending_withdrawals, poll, last, tally, wdFrame>>

\* POST /withdraw/execute: WithdrawalService::execute_withdrawal
HttpExecuteWithdrawal ==
    \E n \in NullifierHashes :
      LET res == execute_withdrawal(chain, now, pending_withdrawals, n)
      IN /\ chain' = res.chain
         /\ pending_withdrawals' = res.pending
         /\ last' = Outcome("execute_withdrawal", res.ok, res.err, <<>>)
         /\ UNCHANGED <<now, wd, poll, tally, wdFrame>>

WithdrawNext ==
    \/ WdEnter
    \/ WdFetchTotalDeposits
    \/ WdSubmit
    \/ WdTrack
    \/ PollTick
    \/ PollExecute
    \/ HttpExecuteWithdrawal
    \/ PoolDeposit
    \/ ClockTick

WithdrawSpec == WithdrawInit /\ [][WithdrawNext]_vars

\* The background task is scheduled: every tick fires, and a started
\* poll_and_execute runs on to its next record.
WithdrawFairSpec ==
    WithdrawSpec /\ WF_vars(PollTick) /\ WF_vars(PollExecute)

\* C10: every recorded pending withdrawal whose execute_after has passed is
\* eventually marked executed by the background loop, also when deposits to
\* the same bucket land while the withdrawal request is being handled.
C10_DueRecordEventuallyExecuted ==
    \A k \in 1..MaxWithdrawals :
      (Len(pending_withdrawals) >= k /\ now >= pending_withdrawals[k].execute_after)
         ~> (Len(pending_withdrawals) >= k /\ pending_withdrawals[k].executed)

\* The addresses a pending record can carry
RecordPdas == {PendingPda(b, t) : b \in Buckets, t \in 0..(MaxPoolDeposits + 1)}

\* C11: a pending-withdrawal record is removed from the relayer's pending list
\* once it has been executed: a record that is marked executed is eventually
\* no longer returned by get_pending_withdrawals.
C11_ExecutedRecordRemoved ==
    \A p \in RecordPdas :
      (\E k \in 1..Len(pending_withdrawals) :
          pending_withdrawals[k].pda = p /\ pending_withdrawals[k].executed)
        ~> (\A k \in 1..Len(get_pending_withdrawals(pending_withdrawals)) :
              get_pending_withdrawals(pending_withdrawals)[k].pda # p)

-----------------------------------------------------------------------------
(* RequestSpec: handle_withdrawal called with any request, well formed or
   not, beside deposits to the pool *)

RequestNext ==
    \/ WdEnterAny
    \/ WdFetchTotalDeposits
    \/ WdSubmit
    \/ WdTrack
    \/ PoolDeposit

RequestSpec == WithdrawInit /\ [][RequestNext]_vars

\* A request with a defect validation must refuse
Defective(request) ==
    \/ request.amount = 0
    \/ request.fee >= request.amount
    \/ AllZero \in {request.nullifier_hash, request.recipient,
                      request.relayer, request.binding_hash}

\* The step is the return of a handle_withdrawal call from its entry checks
ReturnsFromEntry == wd.pc = "idle" /\ tally'.done # tally.done

\* The step is the return of a handle_withdrawal call with an error
ReturnsError ==
    /\ tally'.done # tally.done
    /\ last'.op = "handle_withdrawal"
    /\ ~last'.ok

\* C12: handle_withdrawal appends a pending record only after the
\* request_withdrawal transaction confirmed; a request with amount = 0,
\* fee >= amount or an all-zero nullifier_hash, recipient, relayer or
\* binding_hash returns InvalidRequest with no transaction submitted; and on a
\* validation, bucket or transaction failure the pending list is unchanged.
C12_RecordOnlyAfterConfirmedRequest ==
    [][/\ (ReturnsFromEntry /\ Defective(last'.subject.request))
             => /\ last'.err = "InvalidRequest"
                /\ StatusCode(last'.err) = 400
                /\ tally'.wd_tx_sent = tally.wd_tx_sent
                /\ chain' = chain
       /\ (tally'.wd_tx_sent # tally.wd_tx_sent)
             => AllZero \notin {wd.nullifier_hash, wd.recipient}
       /\ ReturnsError => pending_withdrawals' = pending_withdrawals
       /\ Len(pending_withdrawals') <= tally'.wd_tx_ok
       /\ (Len(pending_withdrawals') > Len(pending_withdrawals))
             => tally.wd_tx_ok > Len(pending_withdrawals)]_vars

\* C12 witness: with a record in the list after a confirmed request, a
\* request with a zero nullifier_hash has just been refused.
C12_Witness ==
    /\ last.op = "handle_withdrawal"
    /\ last.err = "InvalidRequest"
    /\ last.subject.request.nullifier_hash = AllZero
    /\ Len(pending_withdrawals) >= 1
    /\ tally.wd_tx_ok >= 1

-----------------------------------------------------------------------------
(* BlindSpec: a credit is blinded by the client, signed by the relayer,
   unblinded and verified; besides, arbitrary signatures are verified *)

BlindInit ==
    /\ chain = InitChain
    /\ ledger = InitLedger
    /\ now = 0
    /\ RelayerBooted
    /\ last = InitLast
    /\ tally = InitTally

blindFrame ==
    <<chainVars, merkleVars, storeVars, dep, wd, pending_withdrawals, poll,
      sign, client, msave, locks, tally>>

\* BlindedCredit::new: a token id is drawn and blinded under the relayer's key
BlindMint ==
    \E key \in RsaKeys, message \in TokenMessages :
      \E r \in BlindingFactors(key.n) :
        LET pubkey == [n |-> key.n, e |-> key.e]
            res == blind_message(message, pubkey, r)
        IN /\ blind.pc = "idle"
           /\ res.ok
           /\ blind' = [pc |-> "blinded", key |-> key, message |-> message,
                        factor |-> [r |-> res.r, r_inv |-> res.r_inv],
                        token |-> res.blinded]
           /\ UNCHANGED <<last, blindFrame>>

\* The relayer signs the blinded token
BlindSign ==
    /\ blind.pc = "blinded"
    /\ LET res == sign_blinded(blind.key, blind.token)
       IN blind' = IF res.ok
                   THEN [blind EXCEPT !.pc = "signed", !.token = res.signature]
                   ELSE BlindIdle
    /\ UNCHANGED <<last, blindFrame>>

\* BlindedCredit::unblind
BlindUnblind ==
    /\ blind.pc = "signed"
    /\ blind' = [blind EXCEPT
                   !.pc = "unblinded",
                   !.token = unblind_signature(blind.token, blind.factor,
                                 [n |-> blind.key.n, e |-> blind.key.e])]
    /\ UNCHANGED <<last, blindFrame>>

\* A verification made, with what it was made on
Verified(key, message, signature, minted) ==
    [pc |-> "verified", ok |-> rsa_verify_signature(key, message, signature),
     key |-> key, message |-> message, signature |-> signature,
     minted |-> minted]

\* The relayer verifies the unblinded signature against the token id
BlindVerify ==
    /\ blind.pc = "unblinded"
    /\ blind' = Verified(blind.key, blind.message, blind.token, TRUE)
    /\ UNCHANGED <<last, blindFrame>>

\* The relayer verifies a signature that comes from anywhere
VerifyArbitrary ==
    \E key \in RsaKeys, message \in TokenMessages :
      \E sg \in 0..key.n :
        /\ blind.pc = "idle"
        /\ blind' = Verified(key, message, to_bytes_be(sg), FALSE)
        /\ UNCHANGED <<last, blindFrame>>

\* The verdict is returned
BlindReturn ==
    /\ blind.pc = "verified"
    /\ blind' = BlindIdle
    /\ UNCHANGED <<last, blindFrame>>

BlindNext ==
    \/ BlindMint
    \/ BlindSign
    \/ BlindUnblind
    \/ BlindVerify
    \/ VerifyArbitrary
    \/ BlindReturn

BlindSpec == BlindInit /\ [][BlindNext]_vars

\* s^e mod N equals SHA256(token_id) mod N, for the verification just made
CongruentModN ==
    modpow(from_bytes_be(blind.signature), blind.key.e, blind.key.n)
        = from_bytes_be(Sha256(blind.message)) % blind.key.n

-----------------------------------------------------------------------------
(* SignSpec: POST /sign calls, one at a time. The payment transaction of a
   call may or may not be on the ledger, and each fetch of it may fail *)

\* Amounts of the requests, in lamports: two buckets and no bucket
SignAmounts == {BUCKET_AMOUNTS[0] * LAMPORTS_PER_UNIT,
                BUCKET_AMOUNTS[1] * LAMPORTS_PER_UNIT, 999}

\* state.config.fee_bps: no fee, and the default
FeeBpsChoices == {0, 50}

\* req.blinded_token: not hexadecimal, within the modulus, beyond it
BlindedTokens == {None, Some(to_bytes_be(5)), Some(to_bytes_be(LongKey.n))}

\* The /sign requests of the model; "bad" is an unparsable field, and
\* "stranger" a key that is no account of the payment transaction
SignRequests ==
    [amount : SignAmounts, payment_tx : {"sig", "bad"},
     payer : {"payer", "stranger", "bad"}, blinded_token : BlindedTokens]

\* A confirmed transaction as get_transaction returns it: its account keys,
\* and its meta, if any, with the error flag and the balances before and
\* after; delta is the change of the relayer's balance
PaymentTx(account_keys, has_meta, failed, delta) ==
    LET RelayerBefore == 1000
    IN [account_keys |-> account_keys,
        meta |-> IF has_meta
                 THEN Some([err |-> failed,
                            pre_balances |-> [i \in 1..Len(account_keys) |-> RelayerBefore],
                            post_balances |->
                              [i \in 1..Len(account_keys) |->
                                 IF account_keys[i] = "relayer"
                                 THEN RelayerBefore + delta ELSE RelayerBefore]])
                 ELSE None]

\* The transactions a payment signature may stand for, around the total that
\* is expected
PaymentTxs(expected) ==
    {PaymentTx(keys, TRUE, failed, delta) :
        keys \in {<<"payer", "relayer">>, <<"payer", "other">>},
        failed \in BOOLEAN,
        delta \in {-1, 0, expected - 1, expected, expected + 1}}
      \cup {PaymentTx(<<"payer", "relayer">>, FALSE, FALSE, 0)}

SignInit ==
    /\ chain = InitChain
    /\ ledger = InitLedger
    /\ now = 0
    /\ RelayerBooted
    /\ last = InitLast
    /\ tally = InitTally

signFrame ==
    <<chainVars, merkleVars, storeVars, dep, wd, pending_withdrawals, poll,
      blind, client, msave, locks, last, tally>>

\* sign_blinded up to the retry loop: the bucket and the two parsed fields
SignEnter ==
    \E req \in SignRequests, fee_bps \in FeeBpsChoices :
      \E payment \in {None} \cup
                     {Some(tx) : tx \in PaymentTxs(calculate_total_with_fee(req.amount, fee_bps))} :
        LET call == [pc |-> "fetch", req |-> req, fee_bps |-> fee_bps,
                     payment |-> payment, attempt |-> 0, results |-> <<>>,
                     response |-> SignResponse(TRUE, "", "", None)]
            Reject(err, message) ==
                [call EXCEPT !.pc = "responded",
                             !.response = SignResponse(FALSE, err, message, None)]
        IN /\ sign.pc = "idle"
           /\ sign' =
                IF get_bucket_id_of_lamports(req.amount) = None
                THEN Reject("InvalidBucket", "Invalid bucket")
                ELSE IF req.payment_tx = "bad"
                THEN Reject("InvalidRequest", "Invalid payment transaction signature")
                ELSE IF req.payer = "bad"
                THEN Reject("InvalidRequest", "Invalid payer public key")
                ELSE call
           /\ UNCHANGED signFrame

\* One turn of the retry loop: get_transaction answers or fails
SignFetchTurn ==
    /\ sign.pc = "fetch"
    /\ \E result \in {"err"} \cup (IF sign.payment # None THEN {"ok"} ELSE {}) :
         LET fetched == [sign EXCEPT !.results = Append(@, result)]
             Respond(response) ==
                 [fetched EXCEPT !.pc = "responded", !.response = response]
         IN sign' =
              IF result = "ok"
              THEN Respond(verify_payment_and_sign(LongKey, sign.req, sign.fee_bps,
                                                   sign.payment[1]))
              ELSE IF after_failed_fetch(sign.attempt) = "give_up"
              THEN Respond(SignResponse(FALSE, "InvalidRequest",
                                        "Payment transaction not found", None))
              ELSE IF sign.attempt + 1 < FETCH_ATTEMPTS
              THEN [fetched EXCEPT !.attempt = @ + 1]
              ELSE \* the loop is over with nothing fetched: unwrap of None
                   Respond(SignResponse(FALSE, "panic", "unwrap on None", None))

SignFetch ==
    /\ SignFetchTurn
    /\ UNCHANGED signFrame

\* The response is sent
SignReturn ==
    /\ sign.pc = "responded"
    /\ sign' = SignIdle
    /\ UNCHANGED signFrame

SignNext == SignEnter \/ SignFetch \/ SignReturn

SignSpec == SignInit /\ [][SignNext]_vars

\* The handler is a task that runs on: a call that waits in the retry loop
\* makes its next fetch
SignFairSpec == SignSpec /\ WF_vars(SignFetch)

\* The payment transaction of the call was fetched
Fetched == Len(sign.results) >= 1 /\ sign.results[Len(sign.results)] = "ok"

\* The change of the relayer's balance in the payment transaction
RelayerIncrease(tx) ==
    LET i == position(tx.account_keys, "relayer")[1]
    IN tx.meta[1].post_balances[i] - tx.meta[1].pre_balances[i]

\* C13: POST /sign answers with a blind signature only if the payment
\* transaction was found, did not fail and raised the relayer's balance by at
\* least amount + floor(amount * fee_bps / 10000); and when it was found, did
\* not fail and raised the relayer's balance by less, the answer is the
\* status 400 with a message that has "Insufficient payment", and no signature
C13_SignatureOnlyForSufficientPayment ==
    sign.pc = "responded" =>
      LET expected == sign.req.amount
                        + (sign.req.amount \div 10000) * sign.fee_bps
                        + ((sign.req.amount % 10000) * sign.fee_bps) \div 10000
          tx == sign.payment[1]
          measured == /\ Fetched
                      /\ tx.meta # None
                      /\ ~tx.meta[1].err
                      /\ position(tx.account_keys, "relayer") # None
      IN /\ sign.response.signature # None
            => measured /\ RelayerIncrease(tx) >= expected
         /\ (measured /\ RelayerIncrease(tx) < expected)
            => /\ StatusCode(sign.response.err) = 400
               /\ sign.response.message = "Insufficient payment"
               /\ sign.response.signature = None

\* The first half of C13 alone
C13_SignatureOnlyIfPaid ==
    (sign.pc = "responded" /\ sign.response.signature # None)
      => /\ Fetched
         /\ sign.payment[1].meta # None
         /\ ~sign.payment[1].meta[1].err
         /\ RelayerIncrease(sign.payment[1])
              >= calculate_total_with_fee(sign.req.amount, sign.fee_bps)

\* The fetches of the call so far all failed
AllFetchesFailed == \A i \in 1..Len(sign.results) : sign.results[i] = "err"

\* The answer that the payment transaction was not found
NotFoundResponse ==
    /\ sign.response.err = "InvalidRequest"
    /\ sign.response.message = "Payment transaction not found"
    /\ sign.response.signature = None

\* C14: a POST /sign call fetches the payment transaction at most 10 times and
\* stops at the first fetch that succeeds; after the 10th failure in a row it
\* answers that the payment was not found, without a signature; and the
\* retry loop always comes to an end
C14_FetchLoopTerminates ==
    /\ [](sign.pc \in {"fetch", "responded"} =>
            /\ Len(sign.results) <= 10
            /\ \A i \in 1..(Len(sign.results) - 1) : sign.results[i] = "err"
            /\ sign.pc = "fetch" => AllFetchesFailed /\ Len(sign.results) < 10
            /\ (sign.pc = "responded" /\ Len(sign.results) = 10 /\ AllFetchesFailed)
                  => NotFoundResponse
            /\ (sign.pc = "responded" /\ Len(sign.results) >= 1 /\ AllFetchesFailed)
                  => Len(sign.results) = 10 /\ NotFoundResponse)
    /\ (sign.pc = "fetch" ~> sign.pc = "responded")

\* Witness of C14: a call gave up after ten failed fetches
C14_Witness ==
    /\ sign.pc = "responded"
    /\ Len(sign.results) = 10
    /\ AllFetchesFailed
    /\ NotFoundResponse

-----------------------------------------------------------------------------
(* ClientSpec: one PrivacyClient, whose methods take &mut self and so run one
   at a time *)

MaxNetEvents == 5

ProbeAnswers == {"true", "false", "err"}

ClientInit ==
    /\ chain = InitChain
    /\ ledger = InitLedger
    /\ now = 0
    /\ RelayerBooted
    /\ last = InitLast
    /\ tally = InitTally

clientFrame ==
    <<chainVars, merkleVars, storeVars, dep, wd, pending_withdrawals, poll,
      sign, blind, msave, locks, tally>>

ClientSubmit(path) ==
    \E probe \in ProbeAnswers, build \in {"ok", "err"}, post \in {"ok", "err"} :
      LET res == submit(client, path, probe, build, post)
      IN /\ Len(client.net) + 2 <= MaxNetEvents
         /\ client' = res.client
         /\ last' = Outcome(IF path = "/deposit" THEN "submit_deposit"
                                                 ELSE "submit_withdrawal",
                            res.ok, res.err, <<>>)
         /\ UNCHANGED clientFrame

ClientSubmitDeposit == ClientSubmit("/deposit")

ClientSubmitWithdrawal == ClientSubmit("/withdraw")

ClientVerifyTor ==
    \E probe \in ProbeAnswers :
      LET res == verify_tor(client, probe)
      IN /\ Len(client.net) + 1 <= MaxNetEvents
         /\ client' = res.client
         /\ last' = Outcome("verify_tor", res.ok, res.err, <<>>)
         /\ UNCHANGED clientFrame

ClientInvalidate ==
    /\ client' = invalidate_tor_verification(client)
    /\ last' = Outcome("invalidate_tor_verification", TRUE, "", <<>>)
    /\ UNCHANGED clientFrame

ClientNext ==
    \/ ClientSubmitDeposit
    \/ ClientSubmitWithdrawal
    \/ ClientVerifyTor
    \/ ClientInvalidate

ClientSpec == ClientInit /\ [][ClientNext]_vars

\* The traffic of the step
Traffic == SubSeq(client'.net, Len(client.net) + 1, Len(client'.net))

\* The step is a call of submit_deposit or submit_withdrawal
SubmitStep == last'.op \in {"submit_deposit", "submit_withdrawal"}

\* C16: submit_deposit and submit_withdrawal send a payload only when
\* tor_verified is true; tor_verified becomes true only by a probe that
\* answered true; a submit of a verified client sends without a probe; after
\* invalidate_tor_verification the next submit probes again; and a submit
\* whose probe answers false returns TorRequired and sends nothing
C16_PayloadOnlyOverVerifiedTor ==
    [][/\ (\E i \in 1..Len(Traffic) : Traffic[i][1] = "post")
            => /\ SubmitStep
               /\ client'.tor_verified
               /\ client.tor_verified \/ Traffic[1] = <<"probe", "true">>
       /\ (client'.tor_verified /\ ~client.tor_verified)
            => <<"probe", "true">> \in {Traffic[i] : i \in 1..Len(Traffic)}
       /\ (SubmitStep /\ client.tor_verified)
            => \A i \in 1..Len(Traffic) : Traffic[i][1] # "probe"
       /\ last'.op = "invalidate_tor_verification" => ~client'.tor_verified
       /\ (SubmitStep /\ ~client.tor_verified)
            => Len(Traffic) >= 1 /\ Traffic[1][1] = "probe"
       /\ (SubmitStep /\ Len(Traffic) >= 1 /\ Traffic[1] = <<"probe", "false">>)
            => /\ last'.err = "TorRequired"
               /\ Len(Traffic) = 1
               /\ ~client'.tor_verified]_vars

\* Witness of C16: a payload went out over a verified connection, the
\* verification was withdrawn, and the next submit probed, was answered false
\* and was refused
C16_Witness ==
    /\ last.op \in {"submit_deposit", "submit_withdrawal"}
    /\ last.err = "TorRequired"
    /\ Len(client.net) >= 4
    /\ client.net[1] = <<"probe", "true">>
    /\ client.net[2][1] = "post"
    /\ client.net[3][1] = "post"
    /\ client.net[Len(client.net)] = <<"probe", "false">>

-----------------------------------------------------------------------------
(* TreeSpec: a MerkleService from MerkleService::new on, whose buckets are
   initialised by init_tree calls; the state directory may hold files of an
   earlier run *)

TreeInit ==
    /\ chain = InitChain
    /\ ledger = InitLedger
    /\ now = 0
    /\ \E L \in SeqsUpTo(Commitments, 1) :
         mdisk = [NoMerkleFiles EXCEPT
                    !.file = [b \in Buckets |->
                                IF L = <<>> THEN None ELSE Some(TreeStateNew(L))]]
    /\ merkle = MerkleServiceNew
    /\ sdisk = NoFiles
    /\ store = TokenStoreLoad(NoFiles)
    /\ ins = InsIdle
    /\ dep = <<>>
    /\ wd = <<>>
    /\ pending_withdrawals = <<>>
    /\ poll = InitPoll
    /\ SideIdle
    /\ last = InitLast
    /\ tally = InitTally

\* MerkleService::init_tree(bucket_id)
TsInitTree ==
    \E b \in Buckets :
      /\ merkle' = init_tree(merkle, mdisk, b)
      /\ last' = Outcome("init_tree", TRUE, "", [bucket_id |-> b])
      /\ UNCHANGED <<mdisk, merkleFrame>>

\* MerkleService::insert(bucket_id, commitment)
TsInsert ==
    \E b \in Buckets, c \in Commitments, io_ok \in BOOLEAN :
      /\ size_or_zero(merkle, b) <= MaxSeqLen
      /\ LET res == insert(merkle, mdisk, b, c, io_ok)
         IN /\ merkle' = res.merkle
            /\ mdisk' = res.mdisk
            /\ last' = Outcome("insert", res.ok, res.err,
                               [bucket_id |-> b, index |-> res.value])
      /\ UNCHANGED merkleFrame

\* root(bucket_id) and proof(bucket_id, leaf_index) are asked, and the proof
\* is verified for a leaf against the root
TsProof ==
    \E b \in Buckets, i \in 0..(MaxSeqLen + 1), leaf \in Commitments :
      LET r == root(merkle, b)
          p == proof(merkle, b, i)
      IN /\ last' = Outcome("proof", r.ok /\ p.ok,
                            IF r.ok THEN p.err ELSE r.err,
                            [bucket_id |-> b, leaf_index |-> i, leaf |-> leaf,
                             verified |-> r.ok /\ p.ok
                                           /\ verify_proof(r.value, leaf, p.value)])
         /\ UNCHANGED <<merkleVars, merkleFrame>>

TreeNext ==
    \/ TsInitTree
    \/ TsInsert
    \/ TsProof

TreeSpec == TreeInit /\ [][TreeNext]_vars

\* C17: insert on an initialised bucket returns the size the tree had before
\* the call and makes the size one more; on a bucket that was never
\* initialised it returns an error and changes no tree and no commitment list
C17_InsertReturnsSizeBefore ==
    [][last'.op = "insert" =>
         LET b == last'.subject.bucket_id
         IN IF merkle.trees[b] # None
            THEN /\ last'.ok
                 /\ last'.subject.index = size(merkle, b).value
                 /\ size(merkle', b).ok
                 /\ size(merkle', b).value = size(merkle, b).value + 1
                 /\ Len(merkle'.commitments[b][1]) = Len(merkle.commitments[b][1]) + 1
            ELSE /\ ~last'.ok
                 /\ last'.err = "MerkleTree"
                 /\ merkle' = merkle]_vars

\* Witness of C17: the third insert into a bucket returned 2
C17_Witness ==
    /\ last.op = "insert"
    /\ last.ok
    /\ last.subject.index = 2
    /\ size(merkle, last.subject.bucket_id).value = 3

\* Witness of C17, the other case: an insert into a bucket without a tree
\* was refused
C17_WitnessUninitialised ==
    /\ last.op = "insert"
    /\ ~last.ok
    /\ merkle = MerkleServiceNew

\* C18: after any sequence c_0 .. c_(n-1) was inserted into a bucket, the proof
\* of every index i < n verifies c_i against the root of the bucket
C18_EveryProofVerifies ==
    last.op = "proof" =>
      LET b == last.subject.bucket_id
          i == last.subject.leaf_index
      IN (merkle.commitments[b] # None /\ i < Len(merkle.commitments[b][1]))
           => /\ last.ok
              /\ last.subject.verified
                   <=> last.subject.leaf = merkle.commitments[b][1][i + 1]

\* Witness of C18: with three leaves in the tree, the proof of the second one
\* was verified for the leaf inserted second
C18_Witness ==
    /\ last.op = "proof"
    /\ last.subject.leaf_index = 1
    /\ last.subject.verified
    /\ Len(merkle.commitments[last.subject.bucket_id][1]) = 3
    /\ merkle.commitments[last.subject.bucket_id][1][1] # last.subject.leaf

-----------------------------------------------------------------------------
(* SaveSpec: MerkleService::insert calls of two tasks of the multi-threaded
   runtime, step by step. insert releases its locks before save_state, and
   save_state writes the .tmp and renames it with no lock held; the relayer
   may crash at any step and start again on the same directory *)

SaveInit ==
    /\ chain = InitChain
    /\ ledger = InitLedger
    /\ now = 0
    /\ RelayerBooted
    /\ last = InitLast
    /\ tally = InitTally

saveFrame ==
    <<chainVars, storeVars, dep, wd, pending_withdrawals, poll, sign, blind,
      client, locks, tally>>

\* insert, under the write locks
SvInsert(p) ==
    \E b \in Buckets, c \in Commitments :
      LET res == insert_locked(merkle, b, c)
      IN /\ msave[p].pc = "idle"
         /\ size_or_zero(merkle, b) < MaxSeqLen
         /\ res.ok
         /\ merkle' = res.merkle
         /\ msave' = [msave EXCEPT ![p] = [pc |-> "snapshot", bucket_id |-> b]]
         /\ last' = Unobserved
         /\ UNCHANGED <<mdisk, saveFrame>>

\* save_state: the list is cloned under the read lock and serialised
SvSnapshot(p) ==
    /\ msave[p].pc = "snapshot"
    /\ msave' = [msave EXCEPT ![p] =
                   [pc |-> "create", bucket_id |-> msave[p].bucket_id,
                    json |-> save_state_json(merkle, msave[p].bucket_id),
                    at |-> "closed"]]
    /\ last' = Unobserved
    /\ UNCHANGED <<merkle, mdisk, saveFrame>>

\* save_state: std::fs::write opens the .tmp
SvCreate(p) ==
    /\ msave[p].pc = "create"
    /\ mdisk' = fs_create_tmp(mdisk, msave[p].bucket_id)
    /\ msave' = [msave EXCEPT ![p].pc = "write", ![p].at = "tmp"]
    /\ last' = Unobserved
    /\ UNCHANGED <<merkle, saveFrame>>

\* save_state: std::fs::write writes the bytes and closes the file
SvWrite(p) ==
    /\ msave[p].pc = "write"
    /\ mdisk' = fs_write_all(mdisk, msave[p].bucket_id, msave[p].at, msave[p].json)
    /\ msave' = [msave EXCEPT ![p].pc = "rename", ![p].at = "closed"]
    /\ last' = Unobserved
    /\ UNCHANGED <<merkle, saveFrame>>

\* save_state: std::fs::rename; insert logs a failure and returns
SvRename(p) ==
    /\ msave[p].pc = "rename"
    /\ LET res == fs_rename(mdisk, msave[p].bucket_id)
       IN /\ mdisk' = res.mdisk
          /\ msave' = [q \in Savers |->
                         IF q = p THEN [pc |-> "idle"]
                         ELSE IF res.ok /\ msave[q].pc = "write"
                                 /\ msave[q].bucket_id = msave[p].bucket_id
                         THEN [msave[q] EXCEPT !.at = handle_after_rename(@)]
                         ELSE msave[q]]
          /\ last' = Outcome("save_state", res.ok, IF res.ok THEN "" ELSE "Internal",
                             [bucket_id |-> msave[p].bucket_id, json |-> msave[p].json])
    /\ UNCHANGED <<merkle, saveFrame>>

\* The relayer crashes; RelayerState::new runs again on the same directory
SvCrash ==
    /\ \E p \in Savers : msave[p].pc # "idle"
    /\ msave' = SaveIdle
    /\ merkle' = BootMerkle(mdisk)
    /\ last' = Outcome("crash", TRUE, "", <<>>)
    /\ UNCHANGED <<mdisk, saveFrame>>

SaveNext ==
    \/ \E p \in Savers : SvInsert(p)
    \/ \E p \in Savers : SvSnapshot(p)
    \/ \E p \in Savers : SvCreate(p)
    \/ \E p \in Savers : SvWrite(p)
    \/ \E p \in Savers : SvRename(p)
    \/ SvCrash

SaveSpec == SaveInit /\ [][SaveNext]_vars

\* C19: the state file of a bucket is changed by the rename alone, which
\* leaves in it the complete state that was written to the .tmp (so a crash
\* before the rename finds the file as it was, and a crash after it finds the
\* new state), and the file never holds a partial state
C19_StateFileReplacedWhole ==
    /\ [](\A b \in Buckets :
            mdisk.file[b] # None => TreeStateVerify(mdisk.file[b][1]))
    /\ [][\A b \in Buckets :
            mdisk'.file[b] # mdisk.file[b]
              => \E p \in Savers :
                   /\ msave[p].pc = "rename"
                   /\ msave'[p].pc = "idle"
                   /\ mdisk'.file[b] = Some(msave[p].json)]_vars

\* A crash found the state file of a bucket cut short
C19_CrashFindsPartialFile ==
    /\ last.op = "crash"
    /\ \E b \in Buckets : mdisk.file[b] = Some(TruncatedFile)

\* The commitment list a reader of the state file of a bucket finds
DiskList(b) == IF load_state(mdisk, b) = None THEN <<>> ELSE load_state(mdisk, b)[1]

\* The inserts to a bucket that have not returned
InFlight(b) == {p \in Savers : msave[p].pc # "idle" /\ msave[p].bucket_id = b}

\* C25: under concurrent inserts to a bucket the commitment list on disk is
\* never behind the list in memory by more than the inserts in flight, and
\* once every insert has returned the two lists are equal
C25_DiskKeepsUpWithMemory ==
    \A b \in Buckets :
      /\ Len(LocalList(b)) - Len(DiskList(b)) <= Cardinality(InFlight(b))
      /\ InFlight(b) = {} => DiskList(b) = LocalList(b)

-----------------------------------------------------------------------------
(* TokenSpec: TokenStore::insert calls, each as a whole, any of whose file
   steps may fail; the relayer may be started again on the same files *)

\* The file step of an insert that fails: none, or one of the four
FailPoints == 0..4

TokenInit ==
    /\ chain = InitChain
    /\ ledger = InitLedger
    /\ now = 0
    /\ RelayerBooted
    /\ last = InitLast
    /\ tally = InitTally

\* TokenStore::insert(hash)
TkInsert ==
    \E h \in StoreHashes, fail_at \in FailPoints :
      LET res == TokenStoreInsert(store, sdisk, h, fail_at)
      IN /\ store' = res.store
         /\ sdisk' = res.disk
         /\ last' = Outcome("insert", res.ok, IF res.ok THEN "" ELSE "Internal",
                            [hash |-> h, held |-> TokenStoreContains(store, h)])
         /\ UNCHANGED <<ins, storeFrame>>

\* DepositService::new on the same directory: TokenStore::load
TkReload ==
    /\ store' = TokenStoreLoad(sdisk)
    /\ last' = Outcome("load", TRUE, "", <<>>)
    /\ UNCHANGED <<sdisk, ins, storeFrame>>

TokenNext ==
    \/ TkInsert
    \/ TkReload

TokenSpec == TokenInit /\ [][TokenNext]_vars

\* C20: after insert(h), a second insert(h) returns ok and leaves the
\* in-memory set, the data file and the checksum file as the first left them
C20_SecondInsertIsNoOp ==
    last.op = "insert" =>
      /\ TokenStoreContains(store, last.subject.hash)
      /\ \A fail_at \in FailPoints :
           LET second == TokenStoreInsert(store, sdisk, last.subject.hash, fail_at)
           IN /\ second.ok
              /\ second.store = store
              /\ second.disk = sdisk

\* Witness of C20: a first insert of a hash failed at a file step, so the
\* hash is in the set and not in the data file
C20_Witness ==
    /\ last.op = "insert"
    /\ ~last.ok
    /\ ~last.subject.held
    /\ store.cache # {last.subject.hash}
    /\ sdisk.dat # None
    /\ last.subject.hash \notin sdisk.dat[1]

-----------------------------------------------------------------------------
(* BucketSpec: get_bucket_id applied to amounts. An amount is given as a
   number of units of LAMPORTS_PER_UNIT lamports and a rest in lamports *)

MaxUnits == 1000

\* Rests of an amount below one unit: none, and the 999 lamports of the test
Rests == {0, 999}

BucketInit ==
    /\ chain = InitChain
    /\ ledger = InitLedger
    /\ now = 0
    /\ RelayerBooted
    /\ last = InitLast
    /\ tally = InitTally

\* get_bucket_id(units * LAMPORTS_PER_UNIT + rest)
BkLookup ==
    \E units \in 0..MaxUnits, rest \in Rests :
      /\ last' = Outcome("get_bucket_id", TRUE, "",
                         [units |-> units, rest |-> rest,
                          bucket |-> IF rest = 0 THEN get_bucket_id(units) ELSE None])
      /\ UNCHANGED <<chainVars, merkleVars, storeVars, callVars, tally>>

BucketNext == BkLookup

BucketSpec == BucketInit /\ [][BucketNext]_vars

\* The answer of the lookup for an amount of so many units and no rest
Looked(units) ==
    last.op = "get_bucket_id" /\ last.subject.units = units /\ last.subject.rest = 0

-----------------------------------------------------------------------------
(* RaceSpec: the handle_deposit calls of DepositSpec, on a relayer that starts
   either with a new pool or, its state directory lost, with a pool that has
   taken one deposit of the token k1 before *)

ChainAfterOneDeposit ==
    Deposit(InitChain,
            DepositInstruction(0, "c1", hash_token_id("k1"),
                               MerkleTreeRoot(<<"c1">>), 0)).chain

RaceInit ==
    /\ \/ /\ chain = InitChain
          /\ ledger = InitLedger
       \/ /\ chain = ChainAfterOneDeposit
          /\ ledger = [InitLedger EXCEPT
                         ![0] = <<TxRecord(FALSE, DepositLogCommitments("c1"))>>]
    /\ now = 0
    /\ mdisk = NoMerkleFiles
    /\ merkle = BootMerkle(NoMerkleFiles)
    /\ sdisk = NoFiles
    /\ store = TokenStoreLoad(NoFiles)
    /\ ins = InsIdle
    /\ dep = [i \in CallIds |-> DepIdle]
    /\ wd = <<>>
    /\ pending_withdrawals = <<>>
    /\ poll = InitPoll
    /\ SideIdle
    /\ last = InitLast
    /\ tally = InitTally

RaceSpec == RaceInit /\ [][DepositNext]_vars

\* C22: when concurrent handle_deposit calls of a bucket held the same
\* next_index and the transactions of all of them reached the program,
\* exactly one transaction was accepted and the other call failed
C22_ExactlyOneRacedDepositAccepted ==
    \A n \in DOMAIN tally.race :
      (tally.race[n].done >= 2 /\ tally.race[n].sent = tally.race[n].done)
        => /\ tally.race[n].accepted = 1
           /\ tally.race[n].failed >= 1

\* C22, amended: of the concurrent handle_deposit calls of a bucket that held
\* the same next_index, at most one has its transaction accepted, and all of
\* them but at most one fail
C22_AtMostOneRacedDepositAccepted ==
    \A n \in DOMAIN tally.race :
      /\ tally.race[n].accepted <= 1
      /\ tally.race[n].failed >= tally.race[n].done - 1

\* Witness of C22: two calls raced on next_index 0, both transactions reached
\* the program, one was accepted and the other call failed
C22_Witness ==
    /\ tally.race[0].done = 2
    /\ tally.race[0].sent = 2
    /\ tally.race[0].accepted = 1
    /\ tally.race[0].failed = 1
    /\ last.op = "handle_deposit"
    /\ last.subject.detail = "ConstraintSeeds"

-----------------------------------------------------------------------------
(* ExecSpec: the two execution paths of a pending record side by side.  Two
   POST /withdraw/execute calls run execute_withdrawal and the background
   loop runs poll_and_execute; each reads the list under the read lock,
   drops the lock, probes the nullifier account, submits, and takes the
   write lock to mark.  The pool holds one requested withdrawal, recorded. *)

Executors == {"http1", "http2", "loop"}

\* rivals: the executors that were past their un-executed check for the same
\* record while this one was; sent: this one has submitted a transaction
ExIdle == [pc |-> "idle", record |-> <<>>, rivals |-> {}, sent |-> FALSE]

ExecRequest(n) ==
    WithdrawalRequest(BUCKET_AMOUNTS[0], 0, n, "rcpt1", "relayer", "binding",
                      get_initial_merkle_root)

ExecInit ==
    \E n \in NullifierHashes, dl \in DelayChoices :
      LET res == RequestWithdrawal(InitChain, 0,
                     WithdrawalInstruction(0, ExecRequest(n), dl, 0))
      IN /\ res.ok
         /\ chain = res.chain
         /\ ledger = InitLedger
         /\ now = 0
         /\ mdisk = NoMerkleFiles
         /\ merkle = BootMerkle(NoMerkleFiles)
         /\ sdisk = NoFiles
         /\ store = TokenStoreLoad(NoFiles)
         /\ ins = InsIdle
         /\ dep = <<>>
         /\ wd = [e \in Executors |-> ExIdle]
         /\ pending_withdrawals =
               <<PendingWithdrawalRecord(0, ExecRequest(n), 0, 0, dl)>>
         /\ poll = InitPoll
         /\ SideIdle
         /\ last = InitLast
         /\ tally = InitTally

InProgress(e) == wd[e].pc # "idle"

\* The executor e has passed the un-executed check with the record it found
PassCheck(e, record) ==
    LET rivals == {o \in Executors \ {e} :
                      InProgress(o) /\ wd[o].record = Some(record)}
    IN [o \in Executors |->
          IF o = e
          THEN [pc |-> "probe", record |-> Some(record), rivals |-> rivals,
                sent |-> FALSE]
          ELSE IF o \in rivals THEN [wd[o] EXCEPT !.rivals = @ \cup {e}]
          ELSE [wd[o] EXCEPT !.rivals = @ \ {e}]]

\* execute_withdrawal and poll_and_execute, under the read lock: the record
\* with the nullifier hash that is not executed, or the first record that is
\* not executed and is due
ExPick(e) ==
    /\ wd[e].pc = "idle"
    /\ IF e = "loop"
       THEN LET eligible == Eligible(pending_withdrawals, now)
            IN /\ eligible # <<>>
               /\ wd' = PassCheck(e, Head(eligible))
               /\ last' = last
       ELSE \E n \in NullifierHashes :
              LET found == SelectSeq(pending_withdrawals,
                               LAMBDA r : r.nullifier_hash = n /\ ~r.executed)
              IN IF found = <<>>
                 THEN /\ wd' = wd
                      /\ last' = Outcome("execute_withdrawal", FALSE,
                                         "InvalidRequest", <<>>)
                 ELSE /\ wd' = PassCheck(e, Head(found))
                      /\ last' = last
    /\ UNCHANGED <<chain, now, pending_withdrawals, poll, tally, wdFrame>>

\* execute_withdrawal_by_record: get_account(nullifier_pda)
ExProbe(e) ==
    /\ wd[e].pc = "probe"
    /\ wd' = [wd EXCEPT ![e].pc =
                IF nullifier_exists(chain, wd[e].record[1].nullifier_hash)
                THEN "mark" ELSE "submit"]
    /\ UNCHANGED <<chain, now, pending_withdrawals, poll, last, tally, wdFrame>>

\* execute_withdrawal_by_record: send_and_confirm_transaction; an error is
\* returned to the caller at once
ExSubmit(e) ==
    /\ wd[e].pc = "submit"
    /\ LET record == wd[e].record[1]
           res == ExecuteWithdrawal(chain, now,
                      [pending |-> record.pda, pool |-> record.pool_pda,
                       nullifier_hash |-> record.nullifier_hash,
                       recipient |-> record.recipient])
       IN /\ chain' = res.chain
          /\ IF res.ok
             THEN /\ wd' = [wd EXCEPT ![e].pc = "mark", ![e].sent = TRUE]
                  /\ last' = last
             ELSE /\ wd' = [wd EXCEPT ![e].pc = "idle", ![e].sent = TRUE]
                  /\ last' = Outcome(IF e = "loop" THEN "poll_execute"
                                     ELSE "execute_withdrawal",
                                     FALSE, "TransactionFailed", <<>>)
    /\ UNCHANGED <<now, pending_withdrawals, poll, tally, wdFrame>>

\* Under the write lock: the record is marked executed
ExMark(e) ==
    /\ wd[e].pc = "mark"
    /\ LET record == wd[e].record[1]
       IN pending_withdrawals' =
             IF e = "loop" THEN MarkExecuted(pending_withdrawals, record.pda)
             ELSE MarkExecutedByNullifier(pending_withdrawals, record.nullifier_hash)
    /\ wd' = [wd EXCEPT ![e].pc = "idle"]
    /\ last' = Outcome(IF e = "loop" THEN "poll_execute" ELSE "execute_withdrawal",
                       TRUE, "", <<>>)
    /\ UNCHANGED <<chain, now, poll, tally, wdFrame>>

ExecNext ==
    \/ \E e \in Executors : ExPick(e)
    \/ \E e \in Executors : ExProbe(e)
    \/ \E e \in Executors : ExSubmit(e)
    \/ \E e \in Executors : ExMark(e)
    \/ ClockTick

ExecSpec == ExecInit /\ [][ExecNext]_vars

\* C23: for any pending record at most one execution attempt is in progress
\* at a time: no two executors (the HTTP execute path and the background
\* loop, or two HTTP execute calls) have both passed the un-executed check
\* and both submitted an execute transaction for the same record
C23_AtMostOneExecutionAttempt ==
    \A e1, e2 \in Executors :
      (e1 # e2 /\ e2 \in wd[e1].rivals /\ wd[e1].record = wd[e2].record)
         => ~(wd[e1].sent /\ wd[e2].sent)

\* C24: the PDA stored in a pending record is the address of the
\* PendingWithdrawal account that the record's request transaction created,
\* also when a deposit to the bucket is confirmed between the submission of
\* the request and the recording
C24_RecordPdaIsRequestAccount ==
    \A k \in 1..Len(pending_withdrawals) :
      LET record == pending_withdrawals[k]
      IN /\ record.pda \in DOMAIN chain.pending
         /\ chain.pending[record.pda].nullifier_hash = record.nullifier_hash

\* C28: the reconcile step of handle_deposit (the fetch of next_index and the
\* chain-sync) never makes the call fail with TransactionFailed, also when
\* the fetch of the pool account or of the transaction history fails
C28_ReconcileNeverTransactionFailed ==
    (last.op = "handle_deposit" /\ last.err = "TransactionFailed")
        => last.subject.detail \notin {"pool", "history"}

-----------------------------------------------------------------------------
(* SyncSpec: step 4 and step 5 of one handle_deposit call (sync_local_tree,
   then insert) over the answers the RPC node can give.  The call has found
   the local size different from the next_index it fetched.  A transaction of
   the history carries the commitment its log lines name, or none. *)

HistoryLengths == {0, 1, 2, 3, 19, 20, 21, 22, 50, 51}
OnChainSizes == 0..3

\* The commitment named in the log of the i-th transaction of the pool
LoggedCommitment(i) == "h" \o ToString(i)

\* n transactions, oldest first; the one at failed_at (if any) has failed
History(n, loud, failed_at) ==
    [i \in 1..n |-> TxRecord(i = failed_at,
                             IF loud THEN <<LoggedCommitment(i)>> ELSE <<>>)]

SyncInit ==
    \E before \in SeqsUpTo(Commitments, MaxSeqLen), k \in OnChainSizes,
       n \in HistoryLengths, loud \in BOOLEAN, failed_at \in {0, 1, 51},
       history_ok \in BOOLEAN :
      LET d == [NoMerkleFiles EXCEPT !.file[0] = Some(TreeStateNew(before))]
      IN /\ Len(before) # k
         /\ failed_at <= n
         /\ chain = InitChain
         /\ ledger = [InitLedger EXCEPT ![0] = History(n, loud, failed_at)]
         /\ now = 0
         /\ mdisk = d
         /\ merkle = BootMerkle(d)
         /\ sdisk = NoFiles
         /\ store = TokenStoreLoad(NoFiles)
         /\ ins = InsIdle
         /\ dep = [pc |-> "sync", bucket_id |-> 0, on_chain_next_index |-> k,
                   before |-> before, history_ok |-> history_ok,
                   collected |-> <<>>]
         /\ wd = <<>>
         /\ pending_withdrawals = <<>>
         /\ poll = InitPoll
         /\ SideIdle
         /\ last = InitLast
         /\ tally = InitTally

syncFrame == <<chainVars, storeVars, wd, pending_withdrawals, poll, sideVars, tally>>

\* handle_deposit step 4: sync_local_tree(bucket_id, on_chain_next_index)
SySync ==
    /\ dep.pc = "sync"
    /\ LET res == sync_local_tree(merkle, mdisk, ledger, dep.bucket_id,
                                  dep.on_chain_next_index, dep.history_ok)
       IN /\ merkle' = res.merkle
          /\ mdisk' = res.mdisk
          /\ dep' = [dep EXCEPT
                       !.pc = IF res.ok THEN "insert" ELSE "failed",
                       !.collected =
                           ScanHistory(get_signatures_for_address(ledger, dep.bucket_id))]
          /\ last' = Outcome("sync_local_tree", res.ok, res.err, <<>>)
    /\ UNCHANGED syncFrame

\* handle_deposit step 5: merkle_service.insert(bucket_id, commitment)
SyInsert ==
    \E c \in Commitments :
      /\ dep.pc = "insert"
      /\ LET res == insert(merkle, mdisk, dep.bucket_id, c, TRUE)
         IN /\ merkle' = res.merkle
            /\ mdisk' = res.mdisk
            /\ dep' = [dep EXCEPT !.pc = "done"]
            /\ last' = Outcome("insert", res.ok, res.err, <<>>)
      /\ UNCHANGED syncFrame

SyncNext ==
    \/ SySync
    \/ SyInsert

SyncSpec == SyncInit /\ [][SyncNext]_vars

\* The local tree was behind the chain, and chain-sync has fetched the history
Synced ==
    /\ dep.pc = "insert"
    /\ Len(dep.before) < dep.on_chain_next_index

\* C26: when chain-sync finds more than 50 transactions for the pool it skips
\* the scan and leaves the local tree of the bucket as it was
C26_SkipLeavesTreeAsItWas ==
    (Synced /\ Len(ledger[0]) > HISTORY_SKIP_THRESHOLD)
        => /\ merkle.commitments[0] = Some(dep.before)
           /\ merkle.trees[0] = Some(BuildTree(dep.before))

\* The last n elements of a sequence
LastN(q, n) == IF Len(q) <= n THEN q ELSE SubSeq(q, Len(q) - n + 1, Len(q))

\* C27: with at most 50 transactions, the commitments chain-sync collects are
\* those of the 20 most recent transactions of the pool, oldest first; with
\* more than 20 transactions the oldest are left out
C27_CollectedFromMostRecent ==
    (Synced /\ Len(ledger[0]) <= HISTORY_SKIP_THRESHOLD)
        => dep.collected = CollectCommitments(LastN(ledger[0], HISTORY_SCAN_LIMIT))

\* The commitments of a sequence
Held(q) == {q[k] : k \in 1..Len(q)}

\* C29: when handle_deposit has found the local tree larger than next_index,
\* every commitment held before is discarded before the new one is inserted:
\* the tree then holds commitments recovered from the chain only, and after
\* the insert those followed by the new commitment
C29_AheadTreeDiscarded ==
    (Len(dep.before) > dep.on_chain_next_index)
        => /\ dep.pc = "insert"
              => /\ Held(LocalList(0)) \cap Held(dep.before) = {}
                 /\ merkle.trees[0] = Some(BuildTree(LocalList(0)))
           /\ dep.pc = "done"
              => /\ LocalList(0) # <<>>
                 /\ Held(SubSeq(LocalList(0), 1, Len(LocalList(0)) - 1))
                       \cap Held(dep.before) = {}

\* Witness of C29: a tree of two commitments, ahead of a chain with one
\* deposit, holds the recovered commitment and the new one after the insert
C29_Witness ==
    /\ dep.pc = "done"
    /\ Len(dep.before) = 2
    /\ dep.on_chain_next_index = 1
    /\ LocalList(0) = <<LoggedCommitment(1), "c1">>

-----------------------------------------------------------------------------
(* SerialSpec: the handle_deposit calls of RaceSpec, one call at a time *)

SerialNext ==
    /\ DepositNext
    /\ \A i, j \in CallIds : (i # j) => (dep'[i].pc = "idle" \/ dep'[j].pc = "idle")

SerialSpec == RaceInit /\ [][SerialNext]_vars

\* The last call to return was a handle_deposit whose execute_deposit failed
SubmissionFailed ==
    /\ last.op = "handle_deposit"
    /\ last.err = "TransactionFailed"
    /\ last.subject.detail \notin {"pool", "history"}

\* C30: after a handle_deposit call whose chain submission failed, the next
\* handle_deposit call for the bucket finds the local size above next_index
\* and goes on to reset the local tree before it inserts its own commitment
C30_NextCallResetsAfterFailedSubmission ==
    [][\A i \in CallIds :
         (SubmissionFailed /\ dep[i].pc = "size" /\ dep'[i].pc # "size")
            => /\ size_or_zero(merkle, dep[i].bucket_id) > dep[i].on_chain_next_index
               /\ dep'[i].pc = "sync"]_vars

\* C31: no pending withdrawal is paid out before its timelock: the background
\* loop picks only records that are not executed and whose execute_after has
\* passed, and an execution submitted before that is refused by the program
\* and leaves every account as it was
C31_NoPayoutBeforeTimelock ==
    /\ [](\A k \in DOMAIN chain.pending :
            chain.pending[k].status = "Executed"
               => now >= chain.pending[k].execute_after)
    /\ [][(wd["loop"].pc = "idle" /\ wd'["loop"].pc = "probe")
            => /\ ~wd'["loop"].record[1].executed
               /\ wd'["loop"].record[1].execute_after <= now]_vars
    /\ [][\A e \in Executors :
            (/\ wd[e].pc = "submit"
             /\ wd'[e].pc # "submit"
             /\ now < chain.pending[wd[e].record[1].pda].execute_after)
               => chain' = chain]_vars

\* Witness of C31: a POST /withdraw/execute call has submitted the execution
\* of a record an hour before its timelock and was refused
C31_Witness ==
    \E e \in Executors \ {"loop"} :
      /\ wd[e].pc = "idle"
      /\ wd[e].sent
      /\ last.op = "execute_withdrawal"
      /\ last.err = "TransactionFailed"
      /\ now < wd[e].record[1].execute_after
      /\ chain.pending[wd[e].record[1].pda].status = "Pending"

-----------------------------------------------------------------------------
(* LockSpec: the lock operations and RPC requests of the relayer's tasks, in
   the order the code performs them.  A tokio RwLock is fair: requests are
   served first come first served, readers share, and a request that cannot
   be served at once waits in the queue of the lock, as do all behind it. *)

Acquire(l, mode) == <<"acquire", l, mode>>
Release(l) == <<"release", l>>
Rpc == <<"rpc", "", "">>

\* A guard taken and dropped before the next step
Scoped(l, mode) == <<Acquire(l, mode), Release(l)>>

\* MerkleService::size, root: trees.read()
size_locks == Scoped("trees", "read")

\* MerkleService::save_state: commitments.read(), dropped before the files
save_state_locks == Scoped("commitments", "read")

\* The write locks of insert, commitments taken before trees
InsertLocksReversed ==
    <<Acquire("commitments", "write"), Acquire("trees", "write"),
      Release("trees"), Release("commitments")>> \o save_state_locks

\* MerkleService::insert: trees.write(), commitments.write(), both dropped,
\* then save_state
insert_locks ==
    <<Acquire("trees", "write"), Acquire("commitments", "write"),
      Release("trees"), Release("commitments")>> \o save_state_locks

\* MerkleService::sync_from_chain: size, then trees.write(),
\* commitments.write(), both dropped, then save_state
sync_from_chain_locks ==
    size_locks
    \o <<Acquire("trees", "write"), Acquire("commitments", "write"),
         Release("trees"), Release("commitments")>>
    \o save_state_locks

\* DepositService::sync_local_tree: size, the reset, size, the history
\* requests, the rebuild, size
sync_local_tree_locks ==
    size_locks \o sync_from_chain_locks \o size_locks \o <<Rpc>>
    \o sync_from_chain_locks \o size_locks

\* DepositService::handle_deposit, with and without the sync of step 4
handle_deposit_locks(sync) ==
    Scoped("token_store", "read") \o <<Rpc>> \o size_locks
    \o (IF sync THEN sync_local_tree_locks ELSE <<>>)
    \o insert_locks \o size_locks \o <<Rpc>>
    \o Scoped("token_store", "write")

\* WithdrawalService::handle_withdrawal: verify_merkle_root, the request
\* transaction with its fetches, the push of the record
handle_withdrawal_locks ==
    size_locks \o Scoped("historical_roots", "read") \o <<Rpc>>
    \o Scoped("pending_withdrawals", "write")

\* WithdrawalService::record_historical_root, run after a withdrawal
record_historical_root_locks ==
    size_locks \o Scoped("historical_roots", "write")

\* WithdrawalService::execute_withdrawal and one round of poll_and_execute:
\* the lookup, execute_withdrawal_by_record, the mark
execute_locks ==
    Scoped("pending_withdrawals", "read") \o <<Rpc>>
    \o Scoped("pending_withdrawals", "write")

\* What a task may run next; of two deposits at a time, one finds the local
\* tree in step with the pool
ProgramsOf(t) ==
    IF t = "deposit1"
    THEN {handle_deposit_locks(TRUE), handle_deposit_locks(FALSE)}
    ELSE IF t = "deposit2"
    THEN {handle_deposit_locks(FALSE)}
    ELSE IF t = "withdraw"
    THEN {handle_withdrawal_locks, record_historical_root_locks}
    ELSE {execute_locks}

LockInit ==
    /\ chain = InitChain
    /\ ledger = InitLedger
    /\ now = 0
    /\ RelayerBooted
    /\ last = InitLast
    /\ tally = InitTally

lockFrame == <<chainVars, merkleVars, storeVars, dep, wd, pending_withdrawals,
               poll, sign, blind, client, msave, last, tally>>

Running(t) == locks.prog[t] # <<>>
Op(t) == locks.prog[t][locks.pc[t]]
HeldBy(t) == {l \in Locks : \E mode \in {"read", "write"} : <<t, mode>> \in locks.held[l]}
Queued(t, l) == \E k \in 1..Len(locks.queue[l]) : locks.queue[l][k] = t

\* The semaphore of the lock has the permits the request needs
Available(l, mode) ==
    IF mode = "read" THEN \A h \in locks.held[l] : h[2] = "read"
    ELSE locks.held[l] = {}

\* The task goes on to its next operation, or returns after its last
Advance(lk, t) ==
    IF lk.pc[t] = Len(lk.prog[t])
    THEN [lk EXCEPT !.prog[t] = <<>>, !.pc[t] = 1]
    ELSE [lk EXCEPT !.pc[t] = @ + 1]

\* A request arrives, or the interval of the loop fires
LkStart(t) ==
    \E program \in ProgramsOf(t) :
      /\ ~Running(t)
      /\ locks' = [locks EXCEPT !.prog[t] = program, !.pc[t] = 1]
      /\ UNCHANGED lockFrame

\* read().await or write().await: served at once when nobody waits and the
\* permits are there, queued otherwise
LkAcquire(t) ==
    /\ Running(t)
    /\ Op(t)[1] = "acquire"
    /\ LET l == Op(t)[2]
           mode == Op(t)[3]
       IN /\ ~Queued(t, l)
          /\ locks' = IF locks.queue[l] = <<>> /\ Available(l, mode)
                      THEN Advance([locks EXCEPT !.held[l] = @ \cup {<<t, mode>>}], t)
                      ELSE [locks EXCEPT !.queue[l] = Append(@, t)]
    /\ UNCHANGED lockFrame

\* The request at the head of the queue is served
LkGrant(t) ==
    /\ Running(t)
    /\ Op(t)[1] = "acquire"
    /\ LET l == Op(t)[2]
           mode == Op(t)[3]
       IN /\ locks.queue[l] # <<>>
          /\ Head(locks.queue[l]) = t
          /\ Available(l, mode)
          /\ locks' = Advance([locks EXCEPT !.held[l] = @ \cup {<<t, mode>>},
                                            !.queue[l] = Tail(@)], t)
    /\ UNCHANGED lockFrame

\* The guard is dropped
LkRelease(t) ==
    /\ Running(t)
    /\ Op(t)[1] = "release"
    /\ locks' = Advance([locks EXCEPT
                           !.held[Op(t)[2]] = {h \in @ : h[1] # t}], t)
    /\ UNCHANGED lockFrame

\* An RPC request is sent and answered
LkRpc(t) ==
    /\ Running(t)
    /\ Op(t)[1] = "rpc"
    /\ locks' = Advance(locks, t)
    /\ UNCHANGED lockFrame

LockNext ==
    \/ \E t \in Tasks : LkStart(t)
    \/ \E t \in Tasks : LkAcquire(t)
    \/ \E t \in Tasks : LkGrant(t)
    \/ \E t \in Tasks : LkRelease(t)
    \/ \E t \in Tasks : LkRpc(t)

LockSpec == LockInit /\ [][LockNext]_vars

\* The order in which the locks are taken when more than one is held
LockRank ==
    [l \in Locks |->
       IF l = "token_store" THEN 0
       ELSE IF l = "trees" THEN 1
       ELSE IF l = "commitments" THEN 2
       ELSE IF l = "historical_roots" THEN 3
       ELSE 4]

\* The task can take a step
CanStep(t) ==
    \/ ~Running(t)
    \/ Op(t)[1] \in {"release", "rpc"}
    \/ /\ Op(t)[1] = "acquire"
       /\ \/ ~Queued(t, Op(t)[2])
          \/ /\ Head(locks.queue[Op(t)[2]]) = t
             /\ Available(Op(t)[2], Op(t)[3])

\* The task t waits for a lock that u holds or stands in the queue for
\* before t
WaitsOn(t, u) ==
    /\ Running(t) /\ Op(t)[1] = "acquire" /\ Queued(t, Op(t)[2])
    /\ \/ Op(t)[2] \in HeldBy(u)
       \/ \E k, j \in 1..Len(locks.queue[Op(t)[2]]) :
             /\ k < j
             /\ locks.queue[Op(t)[2]][k] = u
             /\ locks.queue[Op(t)[2]][j] = t

\* The tasks that can take a step, or wait only for tasks that are among
\* those found n rounds before
RECURSIVE Live(_)
Live(n) ==
    IF n = 0 THEN {t \in Tasks : CanStep(t)}
    ELSE LET before == Live(n - 1)
         IN {t \in Tasks :
               \/ CanStep(t)
               \/ \A u \in Tasks \ {t} : WaitsOn(t, u) => u \in before}

\* C32: no lock is held while an RPC request is outstanding, locks are taken
\* in one order (a task that asks for a lock holds only locks that rank
\* below it), and no set of tasks wait for one another: every task can take
\* a step, or waits only for tasks of which that is true
C32_NoLockAcrossRpcNoDeadlock ==
    /\ \A t \in Tasks :
         Running(t) =>
           /\ Op(t)[1] = "rpc" => HeldBy(t) = {}
           /\ Op(t)[1] = "acquire"
                => \A k \in HeldBy(t) : LockRank[k] < LockRank[Op(t)[2]]
    /\ Live(Cardinality(Tasks)) = Tasks

\* Witness of C32: a deposit holds the write lock of the trees and waits for
\* the commitments, which the other deposit reads in save_state, while the
\* execute handler has a transaction outstanding
C32_Witness ==
    /\ <<"deposit1", "write">> \in locks.held["trees"]
    /\ Queued("deposit1", "commitments")
    /\ <<"deposit2", "read">> \in locks.held["commitments"]
    /\ Running("execute") /\ Op("execute")[1] = "rpc"

-----------------------------------------------------------------------------
(* RootsSpec: the cache of historical roots WithdrawalService keeps for one
   bucket.  The HashMap is held as the sequence of its entries in the order
   of added_at; the root of the tree after k deposits is written k, distinct
   trees having distinct roots. *)

MIN_ROOT_RETENTION_HOURS == 48
MAX_HISTORICAL_ROOTS == 1000

\* The bounds of RootsSpec: the clock goes to MaxRootHours in steps of
\* RootTickHours, deposits come alone or in runs of RootBurst,
\* MaxRootsRecorded in all, and MaxSingleRecords calls are made outside runs
MaxRootHours == 72
RootTickHours == 24
RootBurst == 500
MaxRootsRecorded == 1001
MaxSingleRecords == 2

TimestampedRoot(r, added_at) == [root |-> r, added_at |-> added_at]

\* HashMap::retain with the age test: the entries stand in the order of
\* added_at, so those that go are the first ones
RetainYounger(bucket_roots, clock, retention_duration) ==
    LET gone == Cardinality({k \in 1..Len(bucket_roots) :
                   ~(clock - bucket_roots[k].added_at < retention_duration)})
    IN SubSeq(bucket_roots, gone + 1, Len(bucket_roots))

\* HashMap::insert: the entry of the key is replaced
InsertRoot(bucket_roots, entry) ==
    LET at == {k \in 1..Len(bucket_roots) : bucket_roots[k].root = entry.root}
    IN IF at = {} THEN Append(bucket_roots, entry)
       ELSE LET k == CHOOSE j \in at : TRUE
            IN Append(SubSeq(bucket_roots, 1, k - 1)
                      \o SubSeq(bucket_roots, k + 1, Len(bucket_roots)), entry)

\* WithdrawalService::record_historical_root on the cache of the bucket:
\* retain the entries younger than the retention, at the limit remove the
\* oldest, insert the root with the time of the call
record_historical_root(bucket_roots, current_root, clock) ==
    LET retained == RetainYounger(bucket_roots, clock,
                       MIN_ROOT_RETENTION_HOURS * SECONDS_PER_HOUR)
        len == Len(retained)
        limited == IF len >= MAX_HISTORICAL_ROOTS
                   THEN SubSeq(retained, (len - MAX_HISTORICAL_ROOTS + 1) + 1, len)
                   ELSE retained
    IN InsertRoot(limited, TimestampedRoot(current_root, clock))

\* The cache, the deposits made, the time each root was last recorded, the
\* calls left of a run of deposits and the calls made outside runs
RootsInit ==
    /\ chain = InitChain
    /\ ledger = InitLedger
    /\ now = 0
    /\ mdisk = NoMerkleFiles
    /\ merkle = BootMerkle(NoMerkleFiles)
    /\ sdisk = NoFiles
    /\ store = TokenStoreLoad(NoFiles)
    /\ ins = InsIdle
    /\ dep = <<>>
    /\ wd = [historical_roots |-> <<>>, deposits |-> 0, recorded_at |-> <<>>,
             run |-> 0, singles |-> 0]
    /\ pending_withdrawals = <<>>
    /\ poll = InitPoll
    /\ SideIdle
    /\ last = InitLast
    /\ tally = InitTally

rootsFrame == <<chain, ledger, merkleVars, storeVars, dep, pending_withdrawals,
                poll, sideVars, last, tally>>

\* A deposit is made and the root recorded after it, alone or as one of a
\* run of RootBurst deposits
RtRecord ==
    \E n \in (IF wd.run > 0 THEN {wd.run} ELSE {1, RootBurst}) :
      /\ wd.deposits + n <= MaxRootsRecorded
      /\ (wd.run = 0 /\ n = 1) => wd.singles < MaxSingleRecords
      /\ wd' = [wd EXCEPT
                  !.historical_roots =
                      record_historical_root(@, wd.deposits + 1, now),
                  !.deposits = @ + 1,
                  !.recorded_at = Append(@, now),
                  !.run = n - 1,
                  !.singles = IF wd.run = 0 /\ n = 1 THEN @ + 1 ELSE @]
      /\ UNCHANGED <<now, rootsFrame>>

\* record_historical_root is called again with no deposit since the last call
RtRecordAgain ==
    /\ wd.run = 0
    /\ wd.deposits > 0
    /\ wd.singles < MaxSingleRecords
    /\ wd' = [wd EXCEPT
                !.historical_roots =
                    record_historical_root(@, wd.deposits, now),
                !.recorded_at[wd.deposits] = now,
                !.singles = @ + 1]
    /\ UNCHANGED <<now, rootsFrame>>

RtTick ==
    /\ wd.run = 0
    /\ now < MaxRootHours * SECONDS_PER_HOUR
    /\ now' = now + RootTickHours * SECONDS_PER_HOUR
    /\ UNCHANGED <<wd, rootsFrame>>

RootsNext ==
    \/ RtRecord
    \/ RtRecordAgain
    \/ RtTick

RootsSpec == RootsInit /\ [][RootsNext]_vars

\* The roots in the cache of the bucket
CachedRoots ==
    {wd.historical_roots[k].root : k \in 1..Len(wd.historical_roots)}

\* C33: a root recorded less than 48 hours ago is in the cache of the bucket,
\* whatever number of roots was recorded since
C33_RecentRootCached ==
    LET cached == CachedRoots
    IN \A r \in 1..wd.deposits :
         now - wd.recorded_at[r] < MIN_ROOT_RETENTION_HOURS * SECONDS_PER_HOUR
            => r \in cached

-----------------------------------------------------------------------------
(* IntervalSpec: the timing of the background loop of main.  The interval is
   created with tokio::time::interval and its missed tick behaviour is never
   set, so it has the default, Burst: the first tick completes at once, and
   each tick that completes moves the deadline one period on from the
   deadline it had, whatever the clock says. *)

POLL_INTERVAL_SECS == 30

\* The bounds of IntervalSpec: the clock goes to MaxPollSeconds in steps of
\* PollClockStep
MaxPollSeconds == 150
PollClockStep == 10

\* Interval::tick with MissedTickBehavior::Burst: the deadline after a tick
\* that was due at the deadline and completed at the clock
next_timeout(deadline, clock) == deadline + POLL_INTERVAL_SECS

\* tokio::time::interval(period): the first tick is due at once
IntervalInit ==
    /\ chain = InitChain
    /\ ledger = InitLedger
    /\ now = 0
    /\ mdisk = NoMerkleFiles
    /\ merkle = BootMerkle(NoMerkleFiles)
    /\ sdisk = NoFiles
    /\ store = TokenStoreLoad(NoFiles)
    /\ ins = InsIdle
    /\ dep = <<>>
    /\ wd = <<>>
    /\ pending_withdrawals = <<>>
    /\ poll = [pc |-> "tick", deadline |-> 0, started_at |-> 0, due_at |-> 0,
               iterations |-> 0]
    /\ SideIdle
    /\ last = InitLast
    /\ tally = InitTally

intervalFrame == <<chain, ledger, merkleVars, storeVars, dep, wd,
                   pending_withdrawals, sideVars, last, tally>>

\* interval.tick().await completes: the deadline has come
IvTick ==
    /\ poll.pc = "tick"
    /\ now >= poll.deadline
    /\ poll' = [pc |-> "run", deadline |-> next_timeout(poll.deadline, now),
                started_at |-> now, due_at |-> poll.deadline,
                iterations |-> poll.iterations + 1]
    /\ UNCHANGED <<now, intervalFrame>>

\* poll_and_execute returns and its results are logged: the loop is back at
\* interval.tick()
IvIterationEnd ==
    /\ poll.pc = "run"
    /\ poll' = [poll EXCEPT !.pc = "tick"]
    /\ UNCHANGED <<now, intervalFrame>>

\* Time passes, while the iteration runs or until the deadline
IvClock ==
    /\ now < MaxPollSeconds
    /\ poll.pc = "tick" => now < poll.deadline
    /\ now' = now + PollClockStep
    /\ UNCHANGED <<poll, intervalFrame>>

IntervalNext ==
    \/ IvTick
    \/ IvIterationEnd
    \/ IvClock

IntervalSpec == IntervalInit /\ [][IntervalNext]_vars

\* C34: missed ticks are not made up: when an iteration has started, whether
\* its tick came on time or late, the next tick is due after that start, so
\* that an iteration is never followed back to back by another one for a
\* tick that was missed before it began
C34_MissedTicksNotMadeUp ==
    poll.pc = "run" => poll.deadline > poll.started_at

-----------------------------------------------------------------------------
(* ReplaySpec: the POST /sign calls of SignSpec, with a record of the first
   payment transaction for which a blind signature was given, and of whether
   a later call that cited the same transaction was given one too. *)

ReplayInit == SignInit

\* The payment the call cites: the signature of the request and the
\* transaction get_transaction returns for it
CitedPayment(call) == [payment_tx |-> call.req.payment_tx, tx |-> call.payment[1]]

\* One turn of the retry loop, the signatures given counted by payment
RpFetch ==
    /\ SignFetchTurn
    /\ tally' =
         IF ~(sign'.pc = "responded" /\ sign'.response.ok) THEN tally
         ELSE IF tally.signed = None
         THEN [tally EXCEPT !.signed = Some(CitedPayment(sign))]
         ELSE IF tally.signed = Some(CitedPayment(sign))
         THEN [tally EXCEPT !.resigned = TRUE]
         ELSE tally
    /\ UNCHANGED <<chainVars, merkleVars, storeVars, dep, wd,
                   pending_withdrawals, poll, blind, client, msave, locks, last>>

ReplayNext == SignEnter \/ RpFetch \/ SignReturn

ReplaySpec == ReplayInit /\ [][ReplayNext]_vars

\* C35: a payment transaction yields at most one blind signature: no call
\* that cites a payment for which a signature was given is given one too
C35_OneSignaturePerPayment == ~tally.resigned

-----------------------------------------------------------------------------
(* The leaf index of a deposit, under DepositSpec.  The program assigns
   pool.next_index as it stands when the transaction is processed; the note
   account is seeded by it, so the transaction of a call is accepted only if
   the next_index the call fetched is that index. *)

\* Call i returns Ok(DepositResponse) in the step
ReturnsOk(i) ==
    /\ dep[i].pc = "mark"
    /\ dep'[i].pc = "idle"
    /\ last'.op = "handle_deposit"
    /\ last'.ok

\* C36: the leaf_index a successful handle_deposit returns is the index the
\* program assigned to the deposit, and the commitment is the leaf of the
\* local tree at that index
C36_LeafIndexIsProgramIndex ==
    [][\A i \in CallIds :
         ReturnsOk(i) =>
           LET assigned == dep[i].on_chain_next_index
               leaves == LocalList(dep[i].bucket_id)
           IN /\ dep[i].leaf_index = assigned
              /\ Len(leaves) > assigned
              /\ leaves[assigned + 1] = dep[i].commitment]_vars

-----------------------------------------------------------------------------
(* Chain-sync over a history of deposits made by the program's instruction,
   under SerialSpec: the pool has taken one deposit, of the commitment c1,
   and the relayer starts with no local tree. *)

\* Call i comes out of sync_local_tree with success in the step, having
\* gone in with an empty local tree and the pool's history being the one
\* deposit
SyncedFromEmpty(i) ==
    /\ dep[i].pc = "sync"
    /\ dep'[i].pc = "insert"
    /\ dep[i].bucket_id = 0
    /\ LocalList(0) = <<>>
    /\ chain = ChainAfterOneDeposit
    /\ Len(ledger[0]) <= HISTORY_SCAN_LIMIT

\* C37: for a pool whose history is at most 20 successful deposits made by
\* the instruction, chain-sync from an empty local tree leaves a tree of
\* next_index leaves that holds the deposited commitments in deposit order
C37_SyncRebuildsTreeFromDeposits ==
    [][\A i \in CallIds :
         SyncedFromEmpty(i) =>
           /\ size_or_zero(merkle', 0) = get_on_chain_next_index(chain, 0)
           /\ merkle'.commitments[0] = Some(<<"c1">>)
           /\ merkle'.trees[0] = Some(BuildTree(<<"c1">>))]_vars

-----------------------------------------------------------------------------
(* PersistSpec: the handle_deposit calls of DepositSpec on a relayer whose
   token store directory may fail any of its file operations. *)

\* Step 7, a file step of TokenStore::insert failing or none
DepMarkIo(i) == \E fail_at \in FailPoints : DepMarkWith(i, fail_at)

PersistNext ==
    \/ \E i \in CallIds : DepEnter(i)
    \/ \E i \in CallIds : DepFetchNextIndex(i)
    \/ \E i \in CallIds : DepLocalSize(i)
    \/ \E i \in CallIds : DepSync(i)
    \/ \E i \in CallIds : DepInsert(i)
    \/ \E i \in CallIds : DepRoot(i)
    \/ \E i \in CallIds : DepExecute(i)
    \/ \E i \in CallIds : DepMarkIo(i)

PersistSpec == DepositInit /\ [][PersistNext]_vars

\* C38: handle_deposit returns success if and only if its transaction was
\* confirmed: a call that returns after the confirmation (from step 7)
\* returns Ok, whatever the token store's files did, and a call that returns
\* before it returns an error
C38_SuccessIffConfirmed ==
    [][\A i \in CallIds :
         (dep[i].pc # "idle" /\ dep'[i].pc = "idle")
            => (last'.ok <=> dep[i].pc = "mark")]_vars

-----------------------------------------------------------------------------
(* Requests of one bucket between two deposits, under ChainSpec *)

\* A request of the bucket was accepted and no deposit was made since: its
\* pending account, seeded by the pool's total_deposits, is there
RequestedSinceDeposit(b) ==
    PendingPda(b, chain.pool[b].total_deposits) \in DOMAIN chain.pending

\* A request the handler finds nothing wrong with: the protocol runs, the
\* delay is within the bounds, the nullifier is neither spent nor that of a
\* pending request, the root is known, the proof verifies
ValidRequestArgs(b, n, rc, r, dl) ==
    /\ ~chain.config.paused
    /\ dl >= chain.config.min_delay_hours
    /\ dl <= chain.config.max_delay_hours
    /\ n \notin chain.nullifier
    /\ \A k \in DOMAIN chain.pending : chain.pending[k].nullifier_hash # n
    /\ \/ is_valid_root(chain.pool[b], r)
       \/ contains_root(chain.historical_roots[b], r)

\* C39: after a request of a bucket was accepted, another valid request of
\* the bucket with a different nullifier is accepted with no deposit in
\* between, at the pending account the relayer derives or at any other
C39_SecondRequestAccepted ==
    \A b \in Buckets, n \in NullifierHashes, rc \in Recipients,
       r \in ChainRoots, dl \in DelayChoices :
      (RequestedSinceDeposit(b) /\ ValidRequestArgs(b, n, rc, r, dl))
         => \E idx \in 0..(MaxDeposits + 1) :
               RequestWithdrawal(chain, now,
                   [bucket_id |-> b, nullifier_hash |-> n, recipient |-> rc,
                    merkle_root |-> r, delay_hours |-> dl,
                    pending_index |-> idx, proof_ok |-> TRUE]).ok

-----------------------------------------------------------------------------
(* HistorySpec: the roots of one pool over a run of deposits, each with a
   root the relayer passes, and the requests that cite a root that was
   current at some time.  dep holds, for each root, the number of deposits
   made since it was last the pool's current root. *)

MaxHistoryDeposits == 10
MaxHistoryRequests == 1

\* The root was never the current root of the pool: a count no root reaches
NeverCurrent == MaxHistoryDeposits + 1

\* The roots the deposits of the run carry, and the root of the new pool
DepositRoots == {MerkleTreeRoot(<<"c1">>), MerkleTreeRoot(<<"c2">>)}
HistoryRoots == DepositRoots \cup {get_initial_merkle_root}

HistoryInit ==
    /\ chain = InitChain
    /\ ledger = InitLedger
    /\ now = 0
    /\ mdisk = NoMerkleFiles
    /\ merkle = BootMerkle(NoMerkleFiles)
    /\ sdisk = NoFiles
    /\ store = TokenStoreLoad(NoFiles)
    /\ ins = InsIdle
    /\ dep = [r \in HistoryRoots |->
                IF r = get_initial_merkle_root THEN 0 ELSE NeverCurrent]
    /\ wd = <<>>
    /\ pending_withdrawals = <<>>
    /\ poll = InitPoll
    /\ SideIdle
    /\ last = InitLast
    /\ tally = InitTally

historyFrame == <<ledger, now, merkleVars, storeVars, wd, pending_withdrawals,
                  poll, sideVars>>

\* The deposit instruction with a token not seen before and the root r
HsDeposit ==
    \E r \in DepositRoots :
      LET p == chain.pool[0]
          res == Deposit(chain,
                    DepositInstruction(0, "c1",
                        hash_token_id("t" \o ToString(p.total_deposits)),
                        r, p.next_index))
      IN /\ p.total_deposits < MaxHistoryDeposits
         /\ res.ok
         /\ chain' = res.chain
         /\ dep' = [q \in HistoryRoots |->
                      IF q = r THEN 0
                      ELSE IF dep[q] = NeverCurrent THEN NeverCurrent
                      ELSE dep[q] + 1]
         /\ last' = Outcome("deposit", TRUE, "", <<>>)
         /\ UNCHANGED <<tally, historyFrame>>

\* The request_withdrawal instruction citing a root that was current
HsRequest ==
    \E r \in HistoryRoots, n \in NullifierHashes :
      LET res == RequestWithdrawal(chain, now,
                    [bucket_id |-> 0, nullifier_hash |-> n, recipient |-> "rcpt1",
                     merkle_root |-> r, delay_hours |-> 0,
                     pending_index |-> chain.pool[0].total_deposits,
                     proof_ok |-> TRUE])
      IN /\ tally.wd_calls < MaxHistoryRequests
         /\ dep[r] # NeverCurrent
         /\ chain' = res.chain
         /\ last' = Outcome("request_withdrawal", res.ok, res.err,
                            [deposits_since |-> dep[r]])
         /\ tally' = [tally EXCEPT !.wd_calls = @ + 1]
         /\ UNCHANGED <<dep, historyFrame>>

HistoryNext ==
    \/ HsDeposit
    \/ HsRequest

HistorySpec == HistoryInit /\ [][HistoryNext]_vars

\* The root check of request_withdrawal
RootAccepted(r) ==
    \/ is_valid_root(chain.pool[0], r)
    \/ contains_root(chain.historical_roots[0], r)

\* C40: the pool's current root passes the root check of request_withdrawal,
\* and so does a root that was current up to 8 deposits ago; no request that
\* cites such a root is refused with InvalidMerkleRoot
C40_RootAcceptedForEightDeposits ==
    /\ RootAccepted(chain.pool[0].merkle_root)
    /\ \A r \in HistoryRoots :
         (dep[r] # NeverCurrent /\ dep[r] <= ROOTS_PER_ACCOUNT) => RootAccepted(r)
    /\ (/\ last.op = "request_withdrawal"
        /\ last.subject.deposits_since <= ROOTS_PER_ACCOUNT)
          => last.err # "InvalidMerkleRoot"

\* Witness of C40: a request was accepted that cited a root replaced 8
\* deposits ago, which the pool's own two slots no longer hold
C40_Witness ==
    /\ last.op = "request_withdrawal"
    /\ last.ok
    /\ last.subject.deposits_since = ROOTS_PER_ACCOUNT
    /\ \E r \in HistoryRoots :
         /\ dep[r] = ROOTS_PER_ACCOUNT
         /\ ~is_valid_root(chain.pool[0], r)
         /\ contains_root(chain.historical_roots[0], r)

====
